---- MODULE Spec2Model ----
(***************************************************************************)
(* Model of the meal-analysis edge function of protein_v1                  *)
(* (supabase function "analyze meal", v2: image + coaching), its three     *)
(* tables (meals, meal_analysis, daily_totals) and the pure helpers it     *)
(* uses (clampText, the response validator, deriveCoachingScenario,        *)
(* fallbackCoaching).                                                      *)
(*                                                                         *)
(* Text is modelled by TLA+ strings.  The source's non-ASCII characters    *)
(* are written with one ASCII character each, so that lengths are kept:    *)
(* the ellipsis U+2026 is "~", the curly apostrophes are "'", the em dash  *)
(* is "-".                                                                 *)
(*                                                                         *)
(* A JavaScript number is modelled exactly, as a decimal with two          *)
(* fraction digits: [i |-> floor(x), f |-> hundredths in 0..99].           *)
(***************************************************************************)
EXTENDS Integers, Sequences, FiniteSets, TLC

(***************************************************************************)
(* Bounds of the model                                                     *)
(***************************************************************************)
NReq == 2          \* number of requests the function receives
MaxSubmits == 2    \* number of photo submissions the page makes
MaxCalls == 3      \* number of calls of getOrCreateSessionId

(***************************************************************************)
(* Program constants                                                       *)
(***************************************************************************)
DAILY_GOAL_GRAMS == 120
LOW == 20
HIGH == 35
MaxProtein == 500
CoachingMax == 220
SummaryMax == 140
NotesMax == 300

Ellipsis == "~"

(***************************************************************************)
(* Strings: String.prototype.trim / trimEnd / toLowerCase / startsWith /   *)
(* slice and the regular expression /\s+/g                                 *)
(***************************************************************************)
IsWs(c) == c \in {" ", "\t", "\n", "\r"}

LastChar(s) == SubSeq(s, Len(s), Len(s))

\* the positions of s that hold a non-whitespace character
NonWs(s) == {k \in 1..Len(s) : ~IsWs(SubSeq(s, k, k))}
MinOf(S) == CHOOSE k \in S : \A j \in S : k <= j
MaxOf(S) == CHOOSE k \in S : \A j \in S : k >= j

TrimStart(s) == IF NonWs(s) = {} THEN "" ELSE SubSeq(s, MinOf(NonWs(s)), Len(s))
TrimEnd(s) == IF NonWs(s) = {} THEN "" ELSE SubSeq(s, 1, MaxOf(NonWs(s)))
Trim(s) == TrimEnd(TrimStart(s))

\* what position k of s contributes to s.replace(/\s+/g, " "): a whitespace
\* run is replaced by one space, written at the first position of the run
CollapsedAt(s, k) ==
  IF ~IsWs(SubSeq(s, k, k)) THEN SubSeq(s, k, k)
  ELSE IF k > 1 /\ IsWs(SubSeq(s, k - 1, k - 1)) THEN ""
  ELSE " "

RECURSIVE CollapseRange(_, _, _)
CollapseRange(s, lo, hi) ==
  IF lo > hi THEN ""
  ELSE IF lo = hi THEN CollapsedAt(s, lo)
  ELSE LET mid == (lo + hi) \div 2
       IN  CollapseRange(s, lo, mid) \o CollapseRange(s, mid + 1, hi)

\* s.replace(/\s+/g, " ")
CollapseWs(s) == CollapseRange(s, 1, Len(s))

\* s.slice(0, n) for n >= 0
Slice0(s, n) == IF Len(s) <= n THEN s ELSE SubSeq(s, 1, n)

UpperChars == "ABCDEFGHIJKLMNOPQRSTUVWXYZ"
LowerChars == "abcdefghijklmnopqrstuvwxyz"

LowerChar(c) ==
  IF \E k \in 1..26 : SubSeq(UpperChars, k, k) = c
  THEN LET k == CHOOSE j \in 1..26 : SubSeq(UpperChars, j, j) = c
       IN  SubSeq(LowerChars, k, k)
  ELSE c

RECURSIVE LowerRange(_, _, _)
LowerRange(s, lo, hi) ==
  IF lo > hi THEN ""
  ELSE IF lo = hi THEN LowerChar(SubSeq(s, lo, lo))
  ELSE LET mid == (lo + hi) \div 2
       IN  LowerRange(s, lo, mid) \o LowerRange(s, mid + 1, hi)

ToLowerCase(s) == LowerRange(s, 1, Len(s))

StartsWith(s, p) == Len(s) >= Len(p) /\ SubSeq(s, 1, Len(p)) = p

\* the cut keeps max characters before the ellipsis
clampTextCutAtMax(text, max) ==
  LET t == CollapseWs(Trim(text))
  IN  IF Len(t) > max THEN TrimEnd(Slice0(t, max)) \o Ellipsis ELSE t

\* clampText(text, max): trim, collapse whitespace runs, cut to max - 1
\* characters plus the ellipsis when longer than max
clampText(text, max) ==
  LET t == CollapseWs(Trim(text))
  IN  IF Len(t) > max THEN TrimEnd(Slice0(t, max - 1)) \o Ellipsis ELSE t

(***************************************************************************)
(* JavaScript values as JSON.parse produces them, and the coercions        *)
(* Number(v), String(v), v ?? d, Number.isFinite, Math.round               *)
(***************************************************************************)
JsUndef == [t |-> "undef", b |-> FALSE, i |-> 0, f |-> 0, s |-> ""]
JsNull == [t |-> "null", b |-> FALSE, i |-> 0, f |-> 0, s |-> ""]
JsBool(b) == [t |-> "bool", b |-> b, i |-> 0, f |-> 0, s |-> ""]
\* the number i + f/100
JsNum(i, f) == [t |-> "num", b |-> FALSE, i |-> i, f |-> f, s |-> ""]
\* JSON.parse("1e999") is Infinity
JsInf == [t |-> "inf", b |-> FALSE, i |-> 0, f |-> 0, s |-> ""]
JsStr(s) == [t |-> "str", b |-> FALSE, i |-> 0, f |-> 0, s |-> s]
\* the one-element array [s]
JsArr(s) == [t |-> "arr", b |-> FALSE, i |-> 0, f |-> 0, s |-> s]
\* an object literal {}
JsObj == [t |-> "obj", b |-> FALSE, i |-> 0, f |-> 0, s |-> ""]

NaN == [nan |-> TRUE, inf |-> FALSE, i |-> 0, f |-> 0]
Infinity == [nan |-> FALSE, inf |-> TRUE, i |-> 0, f |-> 0]
Fin(i, f) == [nan |-> FALSE, inf |-> FALSE, i |-> i, f |-> f]

Digits == "0123456789"
IsDigit(c) == \E k \in 1..10 : SubSeq(Digits, k, k) = c
DigitVal(c) == (CHOOSE k \in 1..10 : SubSeq(Digits, k, k) = c) - 1

AllDigits(s) == s # "" /\ \A k \in 1..Len(s) : IsDigit(SubSeq(s, k, k))

RECURSIVE DigitsVal(_)
DigitsVal(s) ==
  IF s = "" THEN 0
  ELSE 10 * DigitsVal(SubSeq(s, 1, Len(s) - 1)) + DigitVal(LastChar(s))

\* position of the first "." of s, 0 when there is none
DotPos(s) ==
  IF \E k \in 1..Len(s) : SubSeq(s, k, k) = "."
  THEN CHOOSE k \in 1..Len(s) :
         /\ SubSeq(s, k, k) = "."
         /\ \A j \in 1..(k - 1) : SubSeq(s, j, j) # "."
  ELSE 0

\* an unsigned decimal literal "ddd" or "ddd.d" or "ddd.dd"
UnsignedToNumber(s) ==
  LET d == DotPos(s)
      ip == IF d = 0 THEN s ELSE SubSeq(s, 1, d - 1)
      fp == IF d = 0 THEN "" ELSE SubSeq(s, d + 1, Len(s))
  IN  IF d = 0
      THEN IF AllDigits(ip) THEN Fin(DigitsVal(ip), 0) ELSE NaN
      ELSE IF AllDigits(ip) /\ AllDigits(fp) /\ Len(fp) <= 2
           THEN Fin(DigitsVal(ip),
                    IF Len(fp) = 1 THEN 10 * DigitsVal(fp) ELSE DigitsVal(fp))
           ELSE NaN

Negate(x) ==
  IF x.nan \/ x.inf THEN x
  ELSE IF x.f = 0 THEN Fin(0 - x.i, 0) ELSE Fin(0 - x.i - 1, 100 - x.f)

\* StringToNumber: surrounding whitespace is ignored, the empty string is 0,
\* a decimal literal is its value, anything else is NaN
StringToNumber(s) ==
  LET t == Trim(s)
  IN  IF t = "" THEN Fin(0, 0)
      ELSE IF Head(t) = "-" THEN Negate(UnsignedToNumber(Tail(t)))
      ELSE IF Head(t) = "+" THEN UnsignedToNumber(Tail(t))
      ELSE UnsignedToNumber(t)

\* Number(v)
Number(v) ==
  CASE v.t = "undef" -> NaN
    [] v.t = "null" -> Fin(0, 0)
    [] v.t = "bool" -> IF v.b THEN Fin(1, 0) ELSE Fin(0, 0)
    [] v.t = "num" -> Fin(v.i, v.f)
    [] v.t = "inf" -> Infinity
    [] v.t = "str" -> StringToNumber(v.s)
    [] v.t = "arr" -> StringToNumber(v.s)
    [] v.t = "obj" -> NaN

IsFinite(x) == ~x.nan /\ ~x.inf

\* x < 0 and x > n for a finite x and an integer n
LessThanZero(x) == x.i < 0
GreaterThan(x, n) == x.i > n \/ (x.i = n /\ x.f > 0)

\* rounding down instead of to the nearest integer
MathFloor(x) == x.i

\* Math.round(x) = floor(x + 0.5)
MathRound(x) == IF x.f >= 50 THEN x.i + 1 ELSE x.i

FracToString(f) ==
  IF f % 10 = 0 THEN ToString(f \div 10)
  ELSE IF f < 10 THEN "0" \o ToString(f) ELSE ToString(f)

\* Number.prototype.toString for a finite decimal
NumberToString(i, f) ==
  IF f = 0 THEN ToString(i)
  ELSE IF i >= 0 THEN ToString(i) \o "." \o FracToString(f)
  ELSE "-" \o ToString(0 - i - 1) \o "." \o FracToString(100 - f)

\* String(v) for a v that is neither undefined nor null
String(v) ==
  CASE v.t = "bool" -> IF v.b THEN "true" ELSE "false"
    [] v.t = "num" -> NumberToString(v.i, v.f)
    [] v.t = "inf" -> "Infinity"
    [] v.t = "str" -> v.s
    [] v.t = "arr" -> v.s
    [] v.t = "obj" -> "[object Object]"
    [] v.t = "undef" -> "undefined"
    [] v.t = "null" -> "null"

IsNullish(v) == v.t \in {"undef", "null"}

\* String(v ?? d)
StringOr(v, d) == IF IsNullish(v) THEN d ELSE String(v)

(***************************************************************************)
(* Response validator: the part of analyzeMealFromImage after JSON.parse   *)
(***************************************************************************)
MacroRisk == {"low", "medium", "high"}
CarbType == {"low", "mixed", "refined_heavy"}
Confidence == {"low", "medium", "high"}

\* the document JSON.parse returned, reduced to the fields the code reads;
\* parsed.coaching.x is JsUndef when parsed.coaching is missing
Parsed(p, c, n, fa, fi, ca, ms, fmf, ntt, re) ==
  [protein_grams |-> p, confidence |-> c, notes |-> n, fat_risk |-> fa,
   fibre_risk |-> fi, carb_type |-> ca, meal_summary |-> ms,
   five_min_fix |-> fmf, next_time_tweak |-> ntt, reason |-> re]

\* the check without the upper bound of 500
ProteinOkUncapped(protein) == IsFinite(protein) /\ ~LessThanZero(protein)

\* the protein check of the validator
ProteinOk(protein) ==
  ~(~IsFinite(protein) \/ LessThanZero(protein) \/ GreaterThan(protein, MaxProtein))

\* the coerced string is kept whether it is an allowed word or not
CoerceEnumKeep(v, allowed, d) == StringOr(v, d)

\* the coercion of one enumerated field: String(v ?? d), then d unless the
\* string is one of the allowed words
CoerceEnum(v, allowed, d) ==
  LET str == StringOr(v, d)
  IN  IF str \in allowed THEN str ELSE d

\* the validated MealLLMOutput, or the thrown "Bad protein_grams from model"
ValidateParsed(parsed) ==
  LET protein == Number(parsed.protein_grams)
      notes == StringOr(parsed.notes, "")
  IN  IF ~ProteinOk(protein)
      THEN [ok |-> FALSE, error |-> "Bad protein_grams from model"]
      ELSE [ok |-> TRUE,
            protein_grams |-> MathRound(protein),
            confidence |-> CoerceEnum(parsed.confidence, Confidence, "medium"),
            notes |-> Slice0(notes, NotesMax),
            fat_risk |-> CoerceEnum(parsed.fat_risk, MacroRisk, "medium"),
            fibre_risk |-> CoerceEnum(parsed.fibre_risk, MacroRisk, "medium"),
            carb_type |-> CoerceEnum(parsed.carb_type, CarbType, "mixed"),
            meal_summary |-> clampText(StringOr(parsed.meal_summary, ""), SummaryMax),
            coaching |->
              [five_min_fix |-> clampText(StringOr(parsed.five_min_fix, ""), CoachingMax),
               next_time_tweak |-> clampText(StringOr(parsed.next_time_tweak, ""), CoachingMax),
               reason |-> clampText(StringOr(parsed.reason, ""), CoachingMax)]]

\* The reply of the inference service as the code sees it: a non-2xx status,
\* an output text that JSON.parse rejects, or a parsed document.
ReplyHttpError == [kind |-> "http_error"]
ReplyNotJson == [kind |-> "not_json"]
ReplyJson(parsed) == [kind |-> "json", parsed |-> parsed]

\* an analysis that falls back to an empty estimate instead of throwing
analyzeMealFromImageDefaulting(reply) ==
  [ok |-> TRUE, protein_grams |-> 0, confidence |-> "low", notes |-> "",
   fat_risk |-> "medium", fibre_risk |-> "medium", carb_type |-> "mixed",
   meal_summary |-> "",
   coaching |-> [five_min_fix |-> "", next_time_tweak |-> "", reason |-> ""]]

\* analyzeMealFromImage from the inference reply on
analyzeMealFromImage(reply) ==
  CASE reply.kind = "http_error" -> [ok |-> FALSE, error |-> "OpenAI error"]
    [] reply.kind = "not_json" -> [ok |-> FALSE, error |-> "Model did not return valid JSON"]
    [] reply.kind = "json" -> ValidateParsed(reply.parsed)

(***************************************************************************)
(* Coaching taxonomy and deterministic fallback                            *)
(***************************************************************************)
CoachingScenario ==
  {"UNKNOWN_MEAL", "LOW_PROTEIN_BREAKFAST", "LOW_PROTEIN_LUNCH",
   "LOW_PROTEIN_DINNER", "LOW_PROTEIN_SNACK", "MEDIUM_PROTEIN", "HIGH_PROTEIN"}
CoachingFocus == {"protein", "balance", "snack", "portion"}

\* x > n instead of x >= n
AtLeastStrict(x, n) == ~x.nan /\ (x.inf \/ x.i > n \/ (x.i = n /\ x.f > 0))

\* x >= n for a number x and an integer n (false for NaN)
AtLeast(x, n) == ~x.nan /\ (x.inf \/ x.i >= n)

\* the classification without the low-confidence rule
deriveCoachingScenarioAnyConfidence(proteinGrams, confidence, mealType) ==
  IF ~IsFinite(proteinGrams)
  THEN [scenario_id |-> "UNKNOWN_MEAL", focus |-> "protein"]
  ELSE IF AtLeast(proteinGrams, HIGH)
  THEN [scenario_id |-> "HIGH_PROTEIN", focus |-> "protein"]
  ELSE IF AtLeast(proteinGrams, LOW)
  THEN [scenario_id |-> "MEDIUM_PROTEIN", focus |-> "protein"]
  ELSE IF mealType = JsStr("breakfast")
  THEN [scenario_id |-> "LOW_PROTEIN_BREAKFAST", focus |-> "protein"]
  ELSE IF mealType = JsStr("lunch")
  THEN [scenario_id |-> "LOW_PROTEIN_LUNCH", focus |-> "protein"]
  ELSE IF mealType = JsStr("dinner")
  THEN [scenario_id |-> "LOW_PROTEIN_DINNER", focus |-> "protein"]
  ELSE IF mealType = JsStr("snack")
  THEN [scenario_id |-> "LOW_PROTEIN_SNACK", focus |-> "snack"]
  ELSE [scenario_id |-> "UNKNOWN_MEAL", focus |-> "protein"]

\* deriveCoachingScenario({proteinGrams, confidence, mealType}); proteinGrams
\* is a number, confidence a string, mealType a JavaScript value
deriveCoachingScenario(proteinGrams, confidence, mealType) ==
  IF confidence = "low" \/ ~IsFinite(proteinGrams)
  THEN [scenario_id |-> "UNKNOWN_MEAL", focus |-> "protein"]
  ELSE IF AtLeast(proteinGrams, HIGH)
  THEN [scenario_id |-> "HIGH_PROTEIN", focus |-> "protein"]
  ELSE IF AtLeast(proteinGrams, LOW)
  THEN [scenario_id |-> "MEDIUM_PROTEIN", focus |-> "protein"]
  ELSE IF mealType = JsStr("breakfast")
  THEN [scenario_id |-> "LOW_PROTEIN_BREAKFAST", focus |-> "protein"]
  ELSE IF mealType = JsStr("lunch")
  THEN [scenario_id |-> "LOW_PROTEIN_LUNCH", focus |-> "protein"]
  ELSE IF mealType = JsStr("dinner")
  THEN [scenario_id |-> "LOW_PROTEIN_DINNER", focus |-> "protein"]
  ELSE IF mealType = JsStr("snack")
  THEN [scenario_id |-> "LOW_PROTEIN_SNACK", focus |-> "snack"]
  ELSE [scenario_id |-> "UNKNOWN_MEAL", focus |-> "protein"]

\* `${Math.round(proteinGrams)}`
RoundToString(x) ==
  IF x.nan THEN "NaN" ELSE IF x.inf THEN "Infinity" ELSE ToString(MathRound(x))

Triple(a, b, c) == [five_min_fix |-> a, next_time_tweak |-> b, reason |-> c]

\* a generator that interpolates the estimate into the reason of every tag
fallbackCoachingInterpolating(scenario_id, proteinGrams) ==
  Triple("Add a protein side now.", "Next time, add one planned protein item.",
         "Protein is ~" \o RoundToString(proteinGrams) \o "g.")

fallbackCoaching(scenario_id, proteinGrams) ==
  CASE scenario_id = "LOW_PROTEIN_BREAKFAST" ->
         Triple("Add a quick protein side like Greek yoghurt, eggs, or a protein milk/latte.",
                "Next time, start breakfast with a protein base (eggs, yoghurt bowl, or a shake) then add carbs.",
                "Breakfast looks low on protein, so a simple add-on helps immediately.")
    [] scenario_id = "LOW_PROTEIN_LUNCH" ->
         Triple("Add a quick protein side like tinned tuna/salmon, leftover chicken, or a tub of Greek yoghurt.",
                "Next time, add one planned protein item to this lunch (chicken, tuna, eggs, or tofu).",
                "Lunch looks low on protein; a fast add-on is the quickest win.")
    [] scenario_id = "LOW_PROTEIN_DINNER" ->
         Triple("Add a protein anchor now: extra meat/fish, eggs, tofu, or a quick yoghurt-based side.",
                "Next time, add one planned protein portion to this dinner so it lands stronger.",
                "Dinner looks low on protein; anchoring the meal makes it simple.")
    [] scenario_id = "LOW_PROTEIN_SNACK" ->
         Triple("Swap or add a protein snack: yoghurt, cheese, boiled eggs, jerky, or a shake.",
                "Next time, keep one grab-and-go protein snack stocked so it's effortless.",
                "Snack looks low on protein; a quick swap improves satiety fast.")
    [] scenario_id = "HIGH_PROTEIN" ->
         Triple("Nice - this is already protein-forward. If you're still hungry, add fruit or veg on the side.",
                "Next time, keep the same protein portion and add one veg/plant side you enjoy.",
                "Protein is already strong (~" \o RoundToString(proteinGrams) \o "g), so the win is consistency.")
    [] scenario_id = "MEDIUM_PROTEIN" ->
         Triple("Add a small protein top-up now: yoghurt, a slice of cheese, an egg, or tinned fish.",
                "Next time, add one planned protein item so you don't have to 'fix it' later.",
                "Protein is mid-range; one small add-on usually gets it over the line.")
    [] OTHER ->
         Triple("Add something protein-y now if you can: yoghurt, eggs, tinned fish, leftover meat, or a shake.",
                "Next time, add one planned protein item to this meal so it's more filling.",
                "The meal is unclear, so the safest coaching is a simple protein add-on.")

\* the gate without the confidence condition
llmCoachingOkAnyConfidence(analysis) ==
  /\ analysis.coaching.five_min_fix # ""
  /\ analysis.coaching.next_time_tweak # ""
  /\ analysis.coaching.reason # ""
  /\ StartsWith(ToLowerCase(analysis.coaching.next_time_tweak), "next time,")

\* the gate without the three non-empty conditions
llmCoachingOkPrefixOnly(analysis) ==
  /\ analysis.confidence # "low"
  /\ StartsWith(ToLowerCase(analysis.coaching.next_time_tweak), "next time,")

\* the coaching-acceptance gate of the handler
llmCoachingOk(analysis) ==
  /\ analysis.confidence # "low"
  /\ analysis.coaching.five_min_fix # ""
  /\ analysis.coaching.next_time_tweak # ""
  /\ analysis.coaching.reason # ""
  /\ StartsWith(ToLowerCase(analysis.coaching.next_time_tweak), "next time,")

\* the Coaching object the handler builds: scenario, focus and the chosen
\* texts, each passed through clampText with the default maximum
BuildCoaching(analysis, meal_type) ==
  LET sc == deriveCoachingScenario(Fin(analysis.protein_grams, 0),
                                    analysis.confidence, meal_type)
      coachingText == IF llmCoachingOk(analysis)
                      THEN analysis.coaching
                      ELSE fallbackCoaching(sc.scenario_id, Fin(analysis.protein_grams, 0))
  IN  [scenario_id |-> sc.scenario_id,
       focus |-> sc.focus,
       five_min_fix |-> clampText(coachingText.five_min_fix, CoachingMax),
       next_time_tweak |-> clampText(coachingText.next_time_tweak, CoachingMax),
       reason |-> clampText(coachingText.reason, CoachingMax)]

(***************************************************************************)
(* State of the edge function and its collaborators                        *)
(***************************************************************************)
VARIABLES
  pc,             \* pc[r]: the await the handler of request r is suspended at
  req,            \* req[r]: the HTTP request (method and JSON body)
  loc,            \* loc[r]: the local constants of the handler of request r
  resp,           \* resp[r]: the Response returned for request r
  ops,            \* ops[r]: the storage, network and datastore calls r made
  meals,          \* table public.meals
  meal_analysis,  \* table public.meal_analysis
  daily_totals,   \* table public.daily_totals
  fnArg,          \* argument of the pure function under test
  fnRet,          \* its result
  currentScreen,  \* Page state: "home", "log" or "results"
  dailyProtein,   \* Page state: the displayed total of today
  mealResult,     \* Page state: the MealResult, or null
  isLoading,      \* Page state
  submit,         \* the handleLogMeal call in flight, if any
  load,           \* the loadTodayProtein call started on mount
  clientOps,      \* the storage, function and datastore calls the page made
  localStorage,   \* window.localStorage["protein_session_id"]
  storageMode,    \* whether the browser lets the page read and write it
  returned        \* the values getOrCreateSessionId returned so far

serverVars == <<pc, req, loc, resp, ops, meals, meal_analysis, daily_totals>>
fnVars == <<fnArg, fnRet>>
pageVars == <<currentScreen, dailyProtein, mealResult, isLoading, submit, load,
              clientOps>>
sessionVars == <<localStorage, storageMode, returned>>
clientVars == <<pageVars, sessionVars>>

vars == <<pc, req, loc, resp, ops, meals, meal_analysis, daily_totals,
          fnArg, fnRet, currentScreen, dailyProtein, mealResult, isLoading,
          submit, load, clientOps, localStorage, storageMode, returned>>

Reqs == 1..NReq

NoRow == [id |-> 0]
NoResp == [kind |-> "none", status |-> 0]
NoReq == [method |-> "none"]
NoAnalysis == [ok |-> FALSE, error |-> "none"]
NoFn == [fn |-> "none"]
\* mealResult = null
NoResult == [null |-> TRUE]
NoSubmit == [pc |-> "idle"]
\* localStorage.getItem gives null
NoItem == [null |-> TRUE]

\* the Page as mounted: useState initial values, the effect's load started
PageInit ==
  /\ currentScreen = "home"
  /\ dailyProtein = Fin(0, 0)
  /\ mealResult = NoResult
  /\ isLoading = FALSE
  /\ submit = NoSubmit
  /\ load = "pending"
  /\ clientOps = <<"daily_totals.select">>

SessionInit ==
  /\ localStorage = NoItem
  /\ storageMode = "ok"
  /\ returned = <<>>

\* json(resBody, status)
json(resBody, status) == [kind |-> "json", status |-> status, body |-> resBody]
\* { error: msg }
ErrorBody(msg) == [error |-> msg]

Body(session_id, date, meal_text, meal_type, photo_path) ==
  [parses |-> TRUE, session_id |-> session_id, date |-> date,
   meal_text |-> meal_text, meal_type |-> meal_type, photo_path |-> photo_path]
\* a body on which req.json() throws
BadJsonBody ==
  [parses |-> FALSE, session_id |-> JsUndef, date |-> JsUndef,
   meal_text |-> JsUndef, meal_type |-> JsUndef, photo_path |-> JsUndef]

LocInit ==
  [session_id |-> "", date |-> "", meal_text |-> "", meal_type |-> JsUndef,
   photo_path |-> "", signedUrl |-> "", meal_id |-> 0,
   reply |-> ReplyHttpError, analysis |-> NoAnalysis,
   coaching |-> [scenario_id |-> "", focus |-> "", five_min_fix |-> "",
                 next_time_tweak |-> "", reason |-> ""],
   dailyExisting |-> NoRow, newTotal |-> 0, goal |-> 0]

Init ==
  /\ pc = [r \in Reqs |-> "idle"]
  /\ req = [r \in Reqs |-> NoReq]
  /\ loc = [r \in Reqs |-> LocInit]
  /\ resp = [r \in Reqs |-> NoResp]
  /\ ops = [r \in Reqs |-> <<>>]
  /\ meals = {}
  /\ meal_analysis = {}
  /\ daily_totals = {}
  /\ fnArg = NoFn
  /\ fnRet = NoFn
  /\ PageInit
  /\ SessionInit

\* v?.trim() throws a TypeError when v is neither nullish nor a string
TrimThrows(v) == ~IsNullish(v) /\ v.t # "str"
\* the field taken as it is, without trim()
OptNoTrim(v) == IF IsNullish(v) THEN "" ELSE v.s

\* v?.trim() as a string, "" standing for undefined (both are falsy)
OptTrim(v) == IF IsNullish(v) THEN "" ELSE Trim(v.s)

\* a catch block that answers as the validation does, with status 400
FailBadRequest(r, msg) ==
  /\ resp' = [resp EXCEPT ![r] = json(ErrorBody(msg), 400)]
  /\ pc' = [pc EXCEPT ![r] = "done"]

\* the catch block: respond 500 with the error message
Fail(r, msg) ==
  /\ resp' = [resp EXCEPT ![r] = json(ErrorBody(msg), 500)]
  /\ pc' = [pc EXCEPT ![r] = "done"]

Call(r, op) == ops' = [ops EXCEPT ![r] = Append(@, op)]

(***************************************************************************)
(* The handler, one action per await                                       *)
(***************************************************************************)
\* method check, req.json(), field extraction and request validation
Receive(r, methods, bodies) ==
  /\ pc[r] = "idle"
  /\ \E m \in methods, b \in bodies :
       /\ req' = [req EXCEPT ![r] = [method |-> m, body |-> b]]
       /\ IF m = "OPTIONS"
          THEN /\ resp' = [resp EXCEPT ![r] = [kind |-> "ok", status |-> 200]]
               /\ pc' = [pc EXCEPT ![r] = "done"]
               /\ loc' = loc
          ELSE IF m # "POST"
          THEN /\ resp' = [resp EXCEPT ![r] = json(ErrorBody("Only POST allowed"), 405)]
               /\ pc' = [pc EXCEPT ![r] = "done"]
               /\ loc' = loc
          ELSE IF ~b.parses
          THEN Fail(r, "invalid JSON body") /\ loc' = loc
          ELSE IF \/ TrimThrows(b.session_id) \/ TrimThrows(b.date)
                  \/ TrimThrows(b.meal_text) \/ TrimThrows(b.photo_path)
          THEN Fail(r, "trim is not a function") /\ loc' = loc
          ELSE IF \/ OptTrim(b.session_id) = "" \/ OptTrim(b.date) = ""
                  \/ OptTrim(b.photo_path) = ""
          THEN /\ resp' = [resp EXCEPT ![r] =
                             json(ErrorBody("Missing session_id, date, or photo_path"), 400)]
               /\ pc' = [pc EXCEPT ![r] = "done"]
               /\ loc' = loc
          ELSE /\ loc' = [loc EXCEPT ![r].session_id = OptTrim(b.session_id),
                                     ![r].date = OptTrim(b.date),
                                     ![r].meal_text = OptTrim(b.meal_text),
                                     ![r].meal_type = b.meal_type,
                                     ![r].photo_path = OptTrim(b.photo_path)]
               /\ pc' = [pc EXCEPT ![r] = "sign"]
               /\ resp' = resp
  /\ UNCHANGED <<ops, meals, meal_analysis, daily_totals, fnArg, fnRet, clientVars>>

\* a handler that inserts the meals row first and signs the URL afterwards
CreateSignedUrlAfterInsert(r) ==
  /\ pc[r] = "sign"
  /\ ops' = [ops EXCEPT ![r] = @ \o <<"meals.insert", "storage.createSignedUrl">>]
  /\ meals' = meals \cup {[id |-> r, session_id |-> loc[r].session_id,
                            date |-> loc[r].date, meal_text |-> loc[r].meal_text,
                            meal_type |-> loc[r].meal_type, photo_url |-> ""]}
  /\ \E ok \in BOOLEAN :
       IF ok
       THEN /\ loc' = [loc EXCEPT ![r].signedUrl = "signed:" \o loc[r].photo_path,
                                  ![r].meal_id = r]
            /\ pc' = [pc EXCEPT ![r] = "fetchImage"]
            /\ resp' = resp
       ELSE Fail(r, "createSignedUrl failed") /\ loc' = loc
  /\ UNCHANGED <<req, meal_analysis, daily_totals, fnArg, fnRet, clientVars>>

\* supabase.storage.from(BUCKET).createSignedUrl(photo_path, 600)
CreateSignedUrl(r) ==
  /\ pc[r] = "sign"
  /\ Call(r, "storage.createSignedUrl")
  /\ \E ok \in BOOLEAN :
       IF ok
       THEN /\ loc' = [loc EXCEPT ![r].signedUrl = "signed:" \o loc[r].photo_path]
            /\ pc' = [pc EXCEPT ![r] = "insertMeal"]
            /\ resp' = resp
       ELSE Fail(r, "createSignedUrl failed") /\ loc' = loc
  /\ UNCHANGED <<req, meals, meal_analysis, daily_totals, fnArg, fnRet, clientVars>>

\* an id that is not fresh
NewIdConstant(r) == 1

\* gen_random_uuid(), the default of every id column: an id no other row of
\* the table has.  A request inserts at most one row into each table, so the
\* number of the request is such an id.
NewId(r) == r

\* the row of the meals insert; meal_text || null and meal_type ?? null
MealRow(id, l) ==
  [id |-> id, session_id |-> l.session_id, date |-> l.date,
   meal_text |-> l.meal_text, meal_type |-> l.meal_type,
   photo_url |-> l.signedUrl]

\* the insert replaces the meals rows of the session instead of adding a row
InsertMealReplacing(r) ==
  /\ pc[r] = "insertMeal"
  /\ Call(r, "meals.insert")
  /\ \E ok \in BOOLEAN :
       IF ok
       THEN /\ meals' = {m \in meals : m.session_id # loc[r].session_id}
                           \cup {MealRow(NewId(r), loc[r])}
            /\ loc' = [loc EXCEPT ![r].meal_id = NewId(r)]
            /\ pc' = [pc EXCEPT ![r] = "fetchImage"]
            /\ resp' = resp
       ELSE /\ Fail(r, "meals insert failed")
            /\ UNCHANGED <<meals, loc>>
  /\ UNCHANGED <<req, meal_analysis, daily_totals, fnArg, fnRet, clientVars>>

\* 1) insert meal, .select("id").single()
InsertMeal(r) ==
  /\ pc[r] = "insertMeal"
  /\ Call(r, "meals.insert")
  /\ \E ok \in BOOLEAN :
       IF ok
       THEN /\ meals' = meals \cup {MealRow(NewId(r), loc[r])}
            /\ loc' = [loc EXCEPT ![r].meal_id = NewId(r)]
            /\ pc' = [pc EXCEPT ![r] = "fetchImage"]
            /\ resp' = resp
       ELSE /\ Fail(r, "meals insert failed")
            /\ UNCHANGED <<meals, loc>>
  /\ UNCHANGED <<req, meal_analysis, daily_totals, fnArg, fnRet, clientVars>>

\* fetchImageAsDataUrl(signedImageUrl)
FetchImage(r) ==
  /\ pc[r] = "fetchImage"
  /\ Call(r, "fetch.image")
  /\ \E ok \in BOOLEAN :
       IF ok
       THEN pc' = [pc EXCEPT ![r] = "infer"] /\ resp' = resp
       ELSE Fail(r, "Failed to fetch image for base64")
  /\ UNCHANGED <<req, loc, meals, meal_analysis, daily_totals, fnArg, fnRet, clientVars>>

\* 2) the inference call, JSON.parse, validation, scenario and coaching
Infer(r, replies) ==
  /\ pc[r] = "infer"
  /\ Call(r, "openai.responses")
  /\ \E reply \in replies :
       LET analysis == analyzeMealFromImage(reply)
       IN  IF analysis.ok
           THEN /\ loc' = [loc EXCEPT ![r].reply = reply,
                                      ![r].analysis = analysis,
                                      ![r].coaching = BuildCoaching(analysis, loc[r].meal_type)]
                /\ pc' = [pc EXCEPT ![r] = "insertAnalysis"]
                /\ resp' = resp
           ELSE /\ loc' = [loc EXCEPT ![r].reply = reply]
                /\ Fail(r, analysis.error)
  /\ UNCHANGED <<req, meals, meal_analysis, daily_totals, fnArg, fnRet, clientVars>>

AnalysisRow(id, l) ==
  [id |-> id, meal_id |-> l.meal_id,
   protein_grams |-> l.analysis.protein_grams,
   confidence |-> l.analysis.confidence,
   notes |-> l.analysis.notes,
   meal_summary |-> l.analysis.meal_summary,
   fat_risk |-> l.analysis.fat_risk,
   fibre_risk |-> l.analysis.fibre_risk,
   carb_type |-> l.analysis.carb_type,
   five_min_fix |-> l.coaching.five_min_fix,
   next_time_tweak |-> l.coaching.next_time_tweak,
   coaching_reason |-> l.coaching.reason]

\* the foreign key and the CHECK constraints of meal_analysis
AnalysisRowAccepted(row) ==
  /\ \E m \in meals : m.id = row.meal_id
  /\ row.fat_risk \in MacroRisk
  /\ row.fibre_risk \in MacroRisk
  /\ row.carb_type \in CarbType

\* an insert whose error is not checked: the handler goes on to daily_totals
InsertAnalysisUnchecked(r) ==
  /\ pc[r] = "insertAnalysis"
  /\ Call(r, "meal_analysis.insert")
  /\ \E ok \in BOOLEAN :
       /\ meal_analysis' =
            IF ok /\ AnalysisRowAccepted(AnalysisRow(NewId(r), loc[r]))
            THEN meal_analysis \cup {AnalysisRow(NewId(r), loc[r])}
            ELSE meal_analysis
       /\ pc' = [pc EXCEPT ![r] = "selectDaily"]
       /\ resp' = resp
  /\ UNCHANGED <<req, loc, meals, daily_totals, fnArg, fnRet, clientVars>>

\* 3) insert analysis
InsertAnalysis(r) ==
  /\ pc[r] = "insertAnalysis"
  /\ Call(r, "meal_analysis.insert")
  /\ \E ok \in BOOLEAN :
       IF ok /\ AnalysisRowAccepted(AnalysisRow(NewId(r), loc[r]))
       THEN /\ meal_analysis' = meal_analysis \cup {AnalysisRow(NewId(r), loc[r])}
            /\ pc' = [pc EXCEPT ![r] = "selectDaily"]
            /\ resp' = resp
       ELSE /\ Fail(r, "meal_analysis insert failed")
            /\ UNCHANGED meal_analysis
  /\ UNCHANGED <<req, loc, meals, daily_totals, fnArg, fnRet, clientVars>>

DailyRows(session_id, date) ==
  {d \in daily_totals : d.session_id = session_id /\ d.date = date}

\* 4) select the daily_totals row of (session_id, date), .maybeSingle()
SelectDaily(r) ==
  /\ pc[r] = "selectDaily"
  /\ Call(r, "daily_totals.select")
  /\ LET rows == DailyRows(loc[r].session_id, loc[r].date)
     IN  \E ok \in BOOLEAN :
           IF ok /\ Cardinality(rows) <= 1
           THEN /\ loc' = [loc EXCEPT ![r].dailyExisting =
                             IF rows = {} THEN NoRow ELSE CHOOSE d \in rows : TRUE]
                /\ pc' = [pc EXCEPT ![r] = "upsertDaily"]
                /\ resp' = resp
           ELSE Fail(r, "daily_totals select failed") /\ loc' = loc
  /\ UNCHANGED <<req, meals, meal_analysis, daily_totals, fnArg, fnRet, clientVars>>

\* Number(dailyExisting?.protein_total ?? 0)
currentTotal(l) == IF l.dailyExisting = NoRow THEN 0 ELSE l.dailyExisting.protein_total
\* an increment of the total stored at the time of the write
newTotalAtomic(l) ==
  (IF DailyRows(l.session_id, l.date) = {} THEN 0
   ELSE (CHOOSE d \in DailyRows(l.session_id, l.date) : TRUE).protein_total)
  + l.analysis.protein_grams
\* the new total overwrites instead of accumulating
newTotalOverwrite(l) == l.analysis.protein_grams

\* the stored total is incremented by the new total instead of by the grams
newTotalAdding(l) ==
  (IF DailyRows(l.session_id, l.date) = {} THEN 0
   ELSE (CHOOSE d \in DailyRows(l.session_id, l.date) : TRUE).protein_total)
  + currentTotal(l) + l.analysis.protein_grams

newTotal(l) == currentTotal(l) + l.analysis.protein_grams
\* the default goal whatever the row read holds
goalDefault(l) == DAILY_GOAL_GRAMS

\* Number(dailyExisting?.protein_goal ?? DAILY_GOAL_GRAMS)
goal(l) == IF l.dailyExisting = NoRow THEN DAILY_GOAL_GRAMS ELSE l.dailyExisting.protein_goal

\* a plain insert of the values, as if no unique constraint were there
UpsertAsInsert(table, id, session_id, date, total, g, fresh) ==
  table \cup {[id |-> fresh, session_id |-> session_id, date |-> date,
               protein_total |-> total, protein_goal |-> g]}

\* insert ... on conflict (session_id, date) do update set ...: the table after
\* the upsert of the values (id may be NoRow.id, which leaves the id to the
\* default on insert and out of the update)
Upsert(table, id, session_id, date, total, g, fresh) ==
  IF \E d \in table : d.session_id = session_id /\ d.date = date
  THEN {IF d.session_id = session_id /\ d.date = date
        THEN [d EXCEPT !.id = IF id = NoRow.id THEN @ ELSE id,
                       !.protein_total = total, !.protein_goal = g]
        ELSE d : d \in table}
  ELSE table \cup {[id |-> IF id = NoRow.id THEN fresh ELSE id,
                    session_id |-> session_id, date |-> date,
                    protein_total |-> total, protein_goal |-> g]}

\* a success response that reports the total read before the upsert
SuccessBodyStaleTotal(l) ==
  [success |-> TRUE,
   meal_id |-> l.meal_id,
   estimate |-> [protein_grams |-> l.analysis.protein_grams,
                 confidence |-> l.analysis.confidence,
                 notes |-> l.analysis.notes],
   coaching |-> l.coaching,
   daily |-> [date |-> l.date, protein_total |-> currentTotal(l),
              protein_goal |-> goal(l), remaining |-> goal(l) - currentTotal(l)]]

\* the success response
SuccessBody(l) ==
  [success |-> TRUE,
   meal_id |-> l.meal_id,
   estimate |-> [protein_grams |-> l.analysis.protein_grams,
                 confidence |-> l.analysis.confidence,
                 notes |-> l.analysis.notes],
   coaching |-> l.coaching,
   daily |-> [date |-> l.date, protein_total |-> newTotal(l),
              protein_goal |-> goal(l), remaining |-> goal(l) - newTotal(l)]]

\* the upsert of the new total, then the success response
UpsertDaily(r) ==
  /\ pc[r] = "upsertDaily"
  /\ Call(r, "daily_totals.upsert")
  /\ \E ok \in BOOLEAN :
       IF ok
       THEN /\ daily_totals' = Upsert(daily_totals, loc[r].dailyExisting.id,
                                      loc[r].session_id, loc[r].date,
                                      newTotal(loc[r]), goal(loc[r]), NewId(r))
            /\ loc' = [loc EXCEPT ![r].newTotal = newTotal(loc[r]),
                                  ![r].goal = goal(loc[r])]
            /\ resp' = [resp EXCEPT ![r] = json(SuccessBody(loc[r]), 200)]
            /\ pc' = [pc EXCEPT ![r] = "done"]
       ELSE /\ Fail(r, "daily_totals upsert failed")
            /\ UNCHANGED <<daily_totals, loc>>
  /\ UNCHANGED <<req, meals, meal_analysis, fnArg, fnRet, clientVars>>

(***************************************************************************)
(* Inputs: the requests clients send and the replies the inference service *)
(* gives.  Both are untrusted, so the sets hold well-formed and malformed  *)
(* values.                                                                 *)
(***************************************************************************)
RECURSIVE Repeat(_, _)
Repeat(s, n) ==
  IF n = 0 THEN ""
  ELSE IF n = 1 THEN s
  ELSE Repeat(s, n \div 2) \o Repeat(s, n - (n \div 2))

GoodBody(session, date, meal_type) ==
  Body(JsStr(session), JsStr(date), JsUndef, meal_type, JsStr("u1/meal.jpg"))

BaseParsed ==
  Parsed(JsNum(25, 0), JsStr("high"), JsStr("Two eggs on toast."),
         JsStr("low"), JsStr("medium"), JsStr("mixed"), JsStr("2 eggs on toast"),
         JsStr("Add a tub of yoghurt."), JsStr("Next time, add beans to the toast."),
         JsStr("Eggs are a good start."))

WithProtein(p) == [BaseParsed EXCEPT !.protein_grams = p]

\* the small domain of the specifications with several requests
CoreMethods == {"POST"}
CoreBodies ==
  {GoodBody("s1", "2026-01-24", JsStr("lunch")),
   GoodBody("s1", "2026-01-25", JsStr("lunch"))}
SeqBodies ==
  CoreBodies \cup {GoodBody("s2", "2026-01-24", JsStr("lunch"))}
CoreReplies ==
  {ReplyJson(WithProtein(JsNum(25, 0))), ReplyJson(WithProtein(JsNum(30, 0)))}

\* the wide domain of the specification of one request
AllMethods == {"POST", "GET", "OPTIONS"}

FieldValues ==
  {JsUndef, JsNull, JsStr(""), JsStr("  "), JsStr("\t\n"), JsStr(" s1 "), JsNum(5, 0)}
MealTypeValues ==
  {JsUndef, JsNull, JsStr("breakfast"), JsStr("lunch"), JsStr("dinner"),
   JsStr("snack"), JsStr("brunch")}
AllBodies ==
  {BadJsonBody}
  \cup {GoodBody("s1", "2026-01-24", mt) : mt \in MealTypeValues}
  \cup {Body(v, JsStr("2026-01-24"), JsStr(" toast "), JsStr("lunch"), JsStr("p.jpg")) : v \in FieldValues}
  \cup {Body(JsStr("s1"), v, JsUndef, JsStr("lunch"), JsStr("p.jpg")) : v \in FieldValues}
  \cup {Body(JsStr("s1"), JsStr("2026-01-24"), JsUndef, JsUndef, v) : v \in FieldValues}
  \cup {Body(JsUndef, JsUndef, JsUndef, JsUndef, JsUndef)}

ProteinValues ==
  {JsUndef, JsNull, JsBool(TRUE), JsBool(FALSE), JsObj, JsInf,
   JsStr(""), JsStr("abc"), JsStr("25"), JsStr(" 12.5 "), JsStr("-3"), JsStr("600"),
   JsArr("30"), JsArr("lots"),
   JsNum(-1, 0), JsNum(-1, 50), JsNum(0, 0), JsNum(0, 49), JsNum(0, 50),
   JsNum(14, 50), JsNum(19, 49), JsNum(19, 50), JsNum(20, 0), JsNum(25, 0),
   JsNum(24, 75), JsNum(0, 99),
   JsNum(34, 49), JsNum(34, 50), JsNum(35, 0), JsNum(40, 0), JsNum(499, 50),
   JsNum(500, 0), JsNum(500, 1), JsNum(501, 0)}
ConfidenceValues ==
  {JsUndef, JsNull, JsStr("low"), JsStr("medium"), JsStr("high"), JsStr("LOW"),
   JsStr(""), JsStr("unsure"), JsBool(TRUE), JsNum(1, 0), JsArr("low"), JsObj}
RiskValues ==
  {JsUndef, JsStr("low"), JsStr("medium"), JsStr("high"), JsStr("HIGH"), JsArr("high")}
CarbValues ==
  {JsUndef, JsStr("low"), JsStr("mixed"), JsStr("refined_heavy"), JsStr("refined"),
   JsStr("medium"), JsArr("low")}

LongTweak == "Next time, " \o Repeat("add beans and ", 16)
FixValues == {JsUndef, JsStr(""), JsStr(" \n "), JsStr("Add a tub of yoghurt.")}
TweakValues ==
  {JsUndef, JsStr(""), JsStr("Next time, add beans to the toast."),
   JsStr("next time, add beans to the toast."), JsStr("NEXT TIME, ADD BEANS."),
   JsStr("Next time add beans."), JsStr("  Next   time,\tadd beans  "),
   JsStr("Add beans next time, ok"), JsStr(LongTweak), JsNum(5, 0)}
ReasonValues == {JsNull, JsStr("Eggs are a good start.")}
NotesValues ==
  {JsUndef, JsStr(""), JsStr("  saw  two eggs "), JsStr(Repeat("egg ", 100)),
   JsStr(Repeat(" ", 5))}
SummaryValues == {JsUndef, JsStr("2 eggs on toast"), JsStr(Repeat("toast and ", 15))}

AllReplies ==
  {ReplyHttpError, ReplyNotJson,
   ReplyJson(Parsed(JsUndef, JsUndef, JsUndef, JsUndef, JsUndef, JsUndef, JsUndef,
                    JsUndef, JsUndef, JsUndef))}
  \cup {ReplyJson([BaseParsed EXCEPT !.protein_grams = p, !.confidence = c]) :
          p \in ProteinValues, c \in {JsUndef, JsStr("low"), JsStr("medium"), JsStr("high")}}
  \cup {ReplyJson([BaseParsed EXCEPT !.confidence = c, !.fat_risk = fa,
                                     !.fibre_risk = fi, !.carb_type = ca]) :
          c \in {JsUndef, JsStr("low"), JsStr("unsure"), JsArr("low")},
          fa \in {JsUndef, JsStr("high"), JsStr("HIGH")},
          fi \in {JsNull, JsStr("low"), JsStr("none")},
          ca \in {JsUndef, JsStr("refined_heavy"), JsStr("refined")}}
  \cup {ReplyJson([BaseParsed EXCEPT !.confidence = c]) : c \in ConfidenceValues}
  \cup {ReplyJson([BaseParsed EXCEPT !.fat_risk = v]) : v \in RiskValues}
  \cup {ReplyJson([BaseParsed EXCEPT !.fibre_risk = v]) : v \in RiskValues}
  \cup {ReplyJson([BaseParsed EXCEPT !.carb_type = v]) : v \in CarbValues}
  \cup {ReplyJson([BaseParsed EXCEPT !.protein_grams = p, !.confidence = c,
                                     !.five_min_fix = x, !.next_time_tweak = y,
                                     !.reason = z]) :
          p \in {JsNum(14, 50), JsNum(40, 0)},
          c \in {JsStr("low"), JsStr("medium"), JsStr("unsure")},
          x \in FixValues, y \in TweakValues, z \in ReasonValues}
  \cup {ReplyJson([BaseParsed EXCEPT !.notes = n, !.meal_summary = ms]) :
          n \in NotesValues, ms \in SummaryValues}

(***************************************************************************)
(* Specifications                                                          *)
(***************************************************************************)
InFlight(r) == pc[r] \notin {"idle", "done"}
Quiescent == \A r \in Reqs : ~InFlight(r)

Step(r) ==
  \/ CreateSignedUrl(r)
  \/ InsertMeal(r)
  \/ FetchImage(r)
  \/ Infer(r, CoreReplies)
  \/ InsertAnalysis(r)
  \/ SelectDaily(r)
  \/ UpsertDaily(r)

\* requests arrive at any time and are handled concurrently
Next == \E r \in Reqs : Receive(r, CoreMethods, CoreBodies) \/ Step(r)

Spec == Init /\ [][Next]_vars

\* every await of a handler settles: the storage, the datastore, the image
\* fetch and the inference call each resolve or reject, and the runtime then
\* resumes the handler
Awaits ==
  {"sign", "insertMeal", "fetchImage", "infer", "insertAnalysis", "selectDaily",
   "upsertDaily"}
\* the handler of r leaves the await it is suspended at.  Every action of
\* Step(r) is enabled exactly when r is suspended at its await (each call can
\* resolve or reject) and moves pc[r], so Settles(r) is enabled where Step(r)
\* is and the steps of Next that are Settles(r) steps are the Step(r) steps.
Settles(r) ==
  /\ InFlight(r)
  /\ pc' \in {[pc EXCEPT ![r] = p] : p \in (Awaits \cup {"done"}) \ {pc[r]}}

SpecLive == Spec /\ \A r \in Reqs : WF_pc(Settles(r))

\* submissions handled one at a time: a request arrives only when no other is
\* being handled
ReceiveSeq(r) == Quiescent /\ Receive(r, CoreMethods, SeqBodies)

NextSeq == \E r \in Reqs : ReceiveSeq(r) \/ Step(r)

SpecSeq == Init /\ [][NextSeq]_vars

\* one request, drawn from the wide domain
ReceiveOne == Receive(1, AllMethods, AllBodies)
InferOne == Infer(1, AllReplies)

NextOne ==
  \/ ReceiveOne
  \/ CreateSignedUrl(1)
  \/ InsertMeal(1)
  \/ FetchImage(1)
  \/ InferOne
  \/ InsertAnalysis(1)
  \/ SelectDaily(1)
  \/ UpsertDaily(1)

SpecOne == Init /\ [][NextOne]_vars

\* a day that already has a row when the requests arrive: protein_goal is a
\* column with a default of 120 that a row may override
StoredRow ==
  [id |-> 90, session_id |-> "s1", date |-> "2026-01-24",
   protein_total |-> 40, protein_goal |-> 150]

InitStored ==
  /\ pc = [r \in Reqs |-> "idle"]
  /\ req = [r \in Reqs |-> NoReq]
  /\ loc = [r \in Reqs |-> LocInit]
  /\ resp = [r \in Reqs |-> NoResp]
  /\ ops = [r \in Reqs |-> <<>>]
  /\ meals = {}
  /\ meal_analysis = {}
  /\ daily_totals \in {{}, {StoredRow}}
  /\ fnArg = NoFn
  /\ fnRet = NoFn
  /\ PageInit
  /\ SessionInit

\* concurrent requests against a table that may hold the stored row
SpecStored == InitStored /\ [][Next]_vars

\* a pure function applied to one argument drawn from a bounded set
ClassifierProteins ==
  {NaN, Infinity, Fin(-5, 0), Fin(0, 0), Fin(19, 0), Fin(19, 99), Fin(20, 0),
   Fin(34, 0), Fin(34, 50), Fin(35, 0), Fin(100, 0)}
ClassifierMealTypes == MealTypeValues \cup {JsStr("Breakfast"), JsStr("")}
ClassifierInputs ==
  {[fn |-> "deriveCoachingScenario", proteinGrams |-> p, confidence |-> c,
    mealType |-> mt] :
     p \in ClassifierProteins, c \in Confidence, mt \in ClassifierMealTypes}

\* the tags fallbackCoaching is applied to: the seven scenarios and tags that
\* are none of them
FallbackTags == CoachingScenario \cup {"", "low_protein_lunch", "LOW_PROTEIN_BRUNCH"}
FallbackInputs ==
  {[fn |-> "fallbackCoaching", scenario_id |-> s, proteinGrams |-> p] :
     s \in FallbackTags, p \in ClassifierProteins}

\* the texts clampText is applied to, with the two maxima the code uses:
\* short and blank texts, whitespace runs of every kind, texts of exactly
\* max and max + 1 characters, and long texts whose cut falls on a space
ClampTexts ==
  {"", " ", " \t\n ", "eggs", "  two   eggs ", "\tNext   time,\n\tadd  beans \r\n",
   Repeat("a", SummaryMax), Repeat("a", SummaryMax + 1),
   Repeat("a", CoachingMax), Repeat("a", CoachingMax + 1),
   " " \o Repeat("a", CoachingMax) \o "  ",
   "a" \o Repeat("ab ", 46) \o "cd ef",
   Repeat("ab ", 73) \o "cd ef",
   Repeat("ab  \t", 60),
   Repeat(" ", 300),
   Repeat("a", CoachingMax - 2) \o "   b c"}
ClampMaxima == {SummaryMax, CoachingMax}
ClampInputs ==
  {[fn |-> "clampText", text |-> t, max |-> m] : t \in ClampTexts, m \in ClampMaxima}

InitFn ==
  /\ pc = [r \in Reqs |-> "idle"]
  /\ req = [r \in Reqs |-> NoReq]
  /\ loc = [r \in Reqs |-> LocInit]
  /\ resp = [r \in Reqs |-> NoResp]
  /\ ops = [r \in Reqs |-> <<>>]
  /\ meals = {}
  /\ meal_analysis = {}
  /\ daily_totals = {}
  /\ fnArg \in ClassifierInputs \cup FallbackInputs \cup ClampInputs
  /\ fnRet = NoFn
  /\ PageInit
  /\ SessionInit

Classify ==
  /\ fnArg.fn = "deriveCoachingScenario"
  /\ fnRet = NoFn
  /\ fnRet' = [fn |-> fnArg.fn,
               out |-> deriveCoachingScenario(fnArg.proteinGrams, fnArg.confidence,
                                              fnArg.mealType)]
  /\ UNCHANGED <<pc, req, loc, resp, ops, meals, meal_analysis, daily_totals, fnArg, clientVars>>

Fallback ==
  /\ fnArg.fn = "fallbackCoaching"
  /\ fnRet = NoFn
  /\ fnRet' = [fn |-> fnArg.fn,
               out |-> fallbackCoaching(fnArg.scenario_id, fnArg.proteinGrams)]
  /\ UNCHANGED <<pc, req, loc, resp, ops, meals, meal_analysis, daily_totals, fnArg, clientVars>>

Clamp ==
  /\ fnArg.fn = "clampText"
  /\ fnRet = NoFn
  /\ fnRet' = [fn |-> fnArg.fn, out |-> clampText(fnArg.text, fnArg.max)]
  /\ UNCHANGED <<pc, req, loc, resp, ops, meals, meal_analysis, daily_totals, fnArg, clientVars>>

NextFn == Classify \/ Fallback \/ Clamp

SpecFn == InitFn /\ [][NextFn]_vars

(***************************************************************************)
(* The client page: screens, the load of today's total and handleLogMeal   *)
(***************************************************************************)
\* a JavaScript value used as a condition
Truthy(v) ==
  CASE v.t \in {"undef", "null"} -> FALSE
    [] v.t = "bool" -> v.b
    [] v.t = "num" -> v.i # 0 \/ v.f # 0
    [] v.t = "str" -> v.s # ""
    [] OTHER -> TRUE

\* what the form hands to onSubmit
NoPhoto == [file |-> FALSE]
Photo(name) == [file |-> TRUE, name |-> name]
MealTexts == {"", "  ", "2 eggs on toast"}
FormMealTypes == {"lunch", "dinner"}
Photos == {NoPhoto, Photo("meal.jpg")}

\* what supabase.functions.invoke resolves to: { data, error }
NoEstimate == [present |-> FALSE, protein_grams |-> JsUndef, confidence |-> JsUndef,
               notes |-> JsUndef]
Estimate(p, c, n) == [present |-> TRUE, protein_grams |-> p, confidence |-> c, notes |-> n]
NoDaily == [present |-> FALSE, protein_total |-> JsUndef]
Daily(t) == [present |-> TRUE, protein_total |-> t]
InvokeError(msg) ==
  [error |-> msg, hasData |-> FALSE, success |-> JsUndef, dataError |-> JsUndef,
   estimate |-> NoEstimate, daily |-> NoDaily]
InvokeData(success, dataError, estimate, daily) ==
  [error |-> "", hasData |-> TRUE, success |-> success, dataError |-> dataError,
   estimate |-> estimate, daily |-> daily]
InvokeNull ==
  [error |-> "", hasData |-> FALSE, success |-> JsUndef, dataError |-> JsUndef,
   estimate |-> NoEstimate, daily |-> NoDaily]

InvokeOutcomes ==
  {InvokeError("Edge Function returned a non-2xx status code"),
   InvokeError("Failed to send a request to the Edge Function"),
   InvokeNull,
   InvokeData(JsUndef, JsUndef, NoEstimate, NoDaily),
   InvokeData(JsBool(FALSE), JsStr("Bad protein_grams from model"), NoEstimate, NoDaily),
   InvokeData(JsBool(TRUE), JsUndef, NoEstimate, NoDaily)}
  \cup {InvokeData(JsBool(TRUE), JsUndef,
                   Estimate(JsNum(p, 0), JsStr(c), JsStr("Two eggs on toast.")),
                   Daily(JsNum(t, 0))) :
          p \in {25, 30}, c \in {"high", "low"}, t \in {30, 55}}

\* what the select of today's row resolves to: an error, no row, or a row
LoadOutcomes ==
  {[error |-> "select failed", row |-> FALSE, protein_total |-> JsUndef],
   [error |-> "", row |-> FALSE, protein_total |-> JsUndef],
   [error |-> "", row |-> TRUE, protein_total |-> JsNum(25, 0)],
   [error |-> "", row |-> TRUE, protein_total |-> JsNum(55, 0)]}

\* mealText || "(no description)"
DescriptionOf(mealText) == IF mealText = "" THEN "(no description)" ELSE mealText

\* a catch block that sets no result
CatchSilently(message, mealText, mealType) == NoResult

\* the MealResult set by the catch block of handleLogMeal
Catch(message, mealText, mealType) ==
  [protein |-> Fin(0, 0), confidence |-> JsStr("low"),
   explanation |-> "Failed: " \o message,
   mealDescription |-> DescriptionOf(mealText), mealType |-> mealType]

\* the MealResult set from the data of a successful function call
ResultOf(o, call) ==
  [protein |-> IF IsNullish(o.estimate.protein_grams) THEN Fin(0, 0)
               ELSE Number(o.estimate.protein_grams),
   confidence |-> IF IsNullish(o.estimate.confidence) THEN JsStr("medium")
                  ELSE o.estimate.confidence,
   explanation |-> StringOr(o.estimate.notes, ""),
   mealDescription |-> DescriptionOf(call.mealText), mealType |-> call.mealType,
   photoPath |-> call.path, photoUrl |-> "public:" \o call.path]

\* the message of what handleLogMeal throws on the outcome o of the function
\* call, "" when it throws nothing
ThrownOn(o) ==
  IF o.error # "" THEN o.error
  ELSE IF o.hasData /\ Truthy(o.success) THEN ""
  ELSE IF o.hasData /\ ~IsNullish(o.dataError) THEN String(o.dataError)
  ELSE "Function returned success=false"

\* HomeScreen onLogMeal
OpenLog ==
  /\ currentScreen = "home"
  /\ currentScreen' = "log"
  /\ UNCHANGED <<dailyProtein, mealResult, isLoading, submit, load, clientOps>>
  /\ UNCHANGED <<serverVars, fnVars, sessionVars>>

\* LogMealScreen onBack
Back ==
  /\ currentScreen = "log"
  /\ currentScreen' = "home"
  /\ UNCHANGED <<dailyProtein, mealResult, isLoading, submit, load, clientOps>>
  /\ UNCHANGED <<serverVars, fnVars, sessionVars>>

\* the buttons of ResultsScreen are rendered when it is not loading and has a
\* result
ResultsShown == currentScreen = "results" /\ ~isLoading /\ mealResult # NoResult

AddToday ==
  /\ ResultsShown
  /\ mealResult' = NoResult
  /\ currentScreen' = "home"
  /\ UNCHANGED <<dailyProtein, isLoading, submit, load, clientOps>>
  /\ UNCHANGED <<serverVars, fnVars, sessionVars>>

EditMeal ==
  /\ ResultsShown
  /\ currentScreen' = "log"
  /\ UNCHANGED <<dailyProtein, mealResult, isLoading, submit, load, clientOps>>
  /\ UNCHANGED <<serverVars, fnVars, sessionVars>>

\* loadTodayProtein, from the settling of its select on
LoadSettles ==
  /\ load = "pending"
  /\ load' = "done"
  /\ \E o \in LoadOutcomes :
       dailyProtein' = IF o.error # "" THEN dailyProtein
                       ELSE IF o.row /\ ~IsNullish(o.protein_total)
                       THEN Number(o.protein_total)
                       ELSE Fin(0, 0)
  /\ UNCHANGED <<currentScreen, mealResult, isLoading, submit, clientOps>>
  /\ UNCHANGED <<serverVars, fnVars, sessionVars>>

NoPhotoMessage == "Please add a photo (image is required for image-first analysis)."

\* the handleLogMeal call: its arguments, the dailyProtein of the render it
\* closes over, the path of the upload, the message of the exception it caught,
\* the daily?.protein_total of the data the function call gave (undefined
\* until it gives data) and the await it is suspended at
Call0(mealText, mealType, at, path, caught) ==
  [pc |-> at, mealText |-> mealText, mealType |-> mealType,
   dailyProtein |-> dailyProtein, path |-> path, caught |-> caught,
   daily |-> JsUndef]

\* LogMealScreen.handleSubmit, the onSubmit dispatch of Page and handleLogMeal
\* up to its first await
Uploads == Len(SelectSeq(clientOps, LAMBDA op : op = "storage.upload"))

\* a submission that goes on to the function call whether it has a photo or not
SubmitWithoutCheck ==
  /\ currentScreen = "log"
  /\ Uploads < MaxSubmits
  /\ \E mealText \in MealTexts, mealType \in FormMealTypes, photo \in Photos :
       /\ Trim(mealText) # "" \/ photo.file
       /\ currentScreen' = "results"
       /\ mealResult' = NoResult
       /\ isLoading' = TRUE
       /\ IF ~photo.file
          THEN /\ submit' = Call0(mealText, mealType, "invoke", "", "")
               /\ clientOps' = Append(clientOps, "functions.invoke")
          ELSE /\ submit' = Call0(mealText, mealType, "upload", "s1/" \o photo.name, "")
               /\ clientOps' = Append(clientOps, "storage.upload")
  /\ UNCHANGED <<dailyProtein, load>>
  /\ UNCHANGED <<serverVars, fnVars, sessionVars>>

Submit ==
  /\ currentScreen = "log"
  /\ Uploads < MaxSubmits
  /\ \E mealText \in MealTexts, mealType \in FormMealTypes, photo \in Photos :
       /\ Trim(mealText) # "" \/ photo.file
       /\ currentScreen' = "results"
       /\ IF ~photo.file
          THEN /\ mealResult' = Catch(NoPhotoMessage, mealText, mealType)
               /\ isLoading' = FALSE
               /\ submit' = Call0(mealText, mealType, "done", "", NoPhotoMessage)
               /\ clientOps' = clientOps
          ELSE /\ mealResult' = NoResult
               /\ isLoading' = TRUE
               /\ submit' = Call0(mealText, mealType, "upload", "s1/" \o photo.name, "")
               /\ clientOps' = Append(clientOps, "storage.upload")
  /\ UNCHANGED <<dailyProtein, load>>
  /\ UNCHANGED <<serverVars, fnVars, sessionVars>>

\* uploadMealPhoto settles; on success the function is invoked
UploadSettles ==
  /\ submit.pc = "upload"
  /\ \E ok \in BOOLEAN :
       IF ok
       THEN /\ submit' = [submit EXCEPT !.pc = "invoke"]
            /\ clientOps' = Append(clientOps, "functions.invoke")
            /\ UNCHANGED <<mealResult, isLoading>>
       ELSE /\ mealResult' = Catch("upload failed", submit.mealText, submit.mealType)
            /\ isLoading' = FALSE
            /\ submit' = [submit EXCEPT !.pc = "done", !.caught = "upload failed"]
            /\ clientOps' = clientOps
  /\ UNCHANGED <<currentScreen, dailyProtein, load>>
  /\ UNCHANGED <<serverVars, fnVars, sessionVars>>

\* supabase.functions.invoke settles
InvokeSettles ==
  /\ submit.pc = "invoke"
  /\ \E o \in InvokeOutcomes :
       IF ThrownOn(o) = ""
       THEN /\ mealResult' = ResultOf(o, submit)
            /\ dailyProtein' = IF o.daily.present /\ ~IsNullish(o.daily.protein_total)
                               THEN Number(o.daily.protein_total)
                               ELSE submit.dailyProtein
            /\ submit' = [submit EXCEPT !.pc = "done", !.daily = o.daily.protein_total]
       ELSE /\ mealResult' = Catch(ThrownOn(o), submit.mealText, submit.mealType)
            /\ dailyProtein' = dailyProtein
            /\ submit' = [submit EXCEPT !.pc = "done", !.caught = ThrownOn(o)]
  /\ isLoading' = FALSE
  /\ UNCHANGED <<currentScreen, load, clientOps>>
  /\ UNCHANGED <<serverVars, fnVars, sessionVars>>

NextClient ==
  \/ OpenLog
  \/ Back
  \/ Submit
  \/ UploadSettles
  \/ InvokeSettles
  \/ AddToday
  \/ EditMeal
  \/ LoadSettles

SpecClient == Init /\ [][NextClient]_vars

(***************************************************************************)
(* getOrCreateSessionId and the browser's localStorage                     *)
(***************************************************************************)
Item(value) == [null |-> FALSE, value |-> value]
\* crypto.randomUUID(), or sess_<random>_<time>
RandomIds == {"3f2a", "9c41", "sess_b7_1769212800000"}
\* "ok": getItem and setItem work; "blocked": reading localStorage throws;
\* "readonly": setItem throws; "nowindow": the code runs on the server
StorageModes == {"ok", "blocked", "readonly", "nowindow"}

InitSession ==
  /\ pc = [r \in Reqs |-> "idle"]
  /\ req = [r \in Reqs |-> NoReq]
  /\ loc = [r \in Reqs |-> LocInit]
  /\ resp = [r \in Reqs |-> NoResp]
  /\ ops = [r \in Reqs |-> <<>>]
  /\ meals = {}
  /\ meal_analysis = {}
  /\ daily_totals = {}
  /\ fnArg = NoFn
  /\ fnRet = NoFn
  /\ PageInit
  /\ localStorage \in {NoItem, Item(""), Item("3f2a"), Item("77d0")}
  /\ storageMode \in StorageModes
  /\ returned = <<>>

\* one call of getOrCreateSessionId
GetOrCreateSessionId ==
  /\ Len(returned) < MaxCalls
  /\ CASE storageMode = "nowindow" ->
            /\ returned' = Append(returned, "server-session")
            /\ localStorage' = localStorage
       [] storageMode = "blocked" ->
            /\ \E fallback \in RandomIds : returned' = Append(returned, fallback)
            /\ localStorage' = localStorage
       [] storageMode \in {"ok", "readonly"} ->
            IF ~localStorage.null /\ Len(localStorage.value) > 0
            THEN /\ returned' = Append(returned, localStorage.value)
                 /\ localStorage' = localStorage
            ELSE \E id \in RandomIds :
                   IF storageMode = "ok"
                   THEN /\ localStorage' = Item(id)
                        /\ returned' = Append(returned, id)
                   ELSE /\ localStorage' = localStorage
                        /\ \E fallback \in RandomIds :
                             returned' = Append(returned, fallback)
  /\ UNCHANGED storageMode
  /\ UNCHANGED <<serverVars, fnVars, pageVars>>

NextSession == GetOrCreateSessionId

SpecSession == InitSession /\ [][NextSession]_vars

(***************************************************************************)
(* Properties                                                              *)
(***************************************************************************)
RECURSIVE SumOver(_, _)
\* the sum of f[x] over the finite set S
SumOver(S, f) ==
  IF S = {} THEN 0
  ELSE LET x == CHOOSE y \in S : TRUE IN f[x] + SumOver(S \ {x}, f)

Succeeded(r) == resp[r].kind = "json" /\ resp[r].status = 200
Failed(r) == resp[r].kind = "json" /\ resp[r].status >= 400
SameKey(r1, r2) ==
  loc[r1].session_id = loc[r2].session_id /\ loc[r1].date = loc[r2].date
Min(a, b) == IF a <= b THEN a ELSE b

\* the (session_id, date) pairs that occur in meals or daily_totals
Keys ==
  {<<m.session_id, m.date>> : m \in meals} \cup {<<d.session_id, d.date>> : d \in daily_totals}

RowsOf(table, k) == {d \in table : d.session_id = k[1] /\ d.date = k[2]}
\* the stored protein_total of key k, 0 when there is no row
StoredIn(table, k) ==
  IF RowsOf(table, k) = {} THEN 0 ELSE (CHOOSE d \in RowsOf(table, k) : TRUE).protein_total

\* the meal_analysis rows whose owning meal has key k
AnalysesOf(k) ==
  {a \in meal_analysis :
     \E m \in meals : m.id = a.meal_id /\ m.session_id = k[1] /\ m.date = k[2]}

\* the requests for key k that returned success
SucceededFor(k) ==
  {r \in Reqs : Succeeded(r) /\ loc[r].session_id = k[1] /\ loc[r].date = k[2]}

Grams == [r \in Reqs |-> IF loc[r].analysis.ok THEN loc[r].analysis.protein_grams ELSE 0]

\* C1: when submissions are handled one at a time, after any sequence of
\* submissions (no request in flight) every (session_id, date) has at most one
\* daily_totals row, and the row's protein_total is the sum of protein_grams
\* over the meal_analysis rows whose meal has that session_id and date.
C1_TotalIsSumOfAnalyses ==
  Quiescent =>
    \A k \in Keys :
      /\ Cardinality(RowsOf(daily_totals, k)) <= 1
      /\ \A d \in RowsOf(daily_totals, k) :
           d.protein_total =
             SumOver(AnalysesOf(k), [a \in AnalysesOf(k) |-> a.protein_grams])

\* C2: two successful requests for the same (session_id, date) that read the
\* same prior protein_total each answered prior + own grams, and the stored total
\* lacks at least one of their two increments: it is at most the sum of the
\* grams of all successful requests for the key less the smaller of the two.
C2_LostUpdate ==
  \A r1, r2 \in Reqs :
    (/\ r1 # r2
     /\ Succeeded(r1) /\ Succeeded(r2) /\ SameKey(r1, r2)
     /\ currentTotal(loc[r1]) = currentTotal(loc[r2]))
    => LET k == <<loc[r1].session_id, loc[r1].date>>
       IN  /\ resp[r1].body.daily.protein_total = currentTotal(loc[r1]) + Grams[r1]
           /\ resp[r2].body.daily.protein_total = currentTotal(loc[r2]) + Grams[r2]
           /\ StoredIn(daily_totals, k) + Min(Grams[r1], Grams[r2])
                <= SumOver(SucceededFor(k), Grams)

\* a state in which two requests for one key both returned success after
\* reading the same prior total, and the stored total is short of an increment
C2_Witness ==
  \E r1, r2 \in Reqs :
    /\ r1 # r2
    /\ Succeeded(r1) /\ Succeeded(r2) /\ SameKey(r1, r2)
    /\ currentTotal(loc[r1]) = currentTotal(loc[r2])
    /\ Grams[r1] > 0 /\ Grams[r2] > 0
    /\ StoredIn(daily_totals, <<loc[r1].session_id, loc[r1].date>>)
         < currentTotal(loc[r1]) + Grams[r1] + Grams[r2]

\* the request r has received the inference reply, a parsed JSON document
GotJson(r) == loc[r].reply.kind = "json" /\ "openai.responses" \in {ops[r][j] : j \in DOMAIN ops[r]}
RawOf(r) == loc[r].reply.parsed

\* v is a JSON number within [0, 500]
IsNumberInRange(v) == v.t = "num" /\ 100 * v.i + v.f >= 0 /\ 100 * v.i + v.f <= 100 * MaxProtein

DailyCalls == {"daily_totals.select", "daily_totals.upsert"}
CallsOf(r) == {ops[r][j] : j \in DOMAIN ops[r]}

\* v is not a number in the sense of C3: missing, null, a boolean, an object,
\* an infinity, or a string that is empty or not a decimal literal
NotNumeric(v) ==
  \/ v.t \in {"undef", "null", "bool", "obj", "inf"}
  \/ v.t = "str" /\ (Trim(v.s) = "" \/ StringToNumber(v.s).nan)
\* v is a number, or a string holding a decimal literal, outside [0, 500]
OutOfRange(v) ==
  /\ v.t \in {"num", "str"}
  /\ ~NotNumeric(v)
  /\ LET x == Number(v) IN 100 * x.i + x.f < 0 \/ 100 * x.i + x.f > 100 * MaxProtein

\* C3: a model output whose protein_grams is outside [0, 500] or is not a
\* number (missing, null, empty string, boolean, non-numeric string) makes the
\* request fail: it is not carried past validation, its response is an error,
\* no meal_analysis row is inserted for it and daily_totals is neither read
\* nor written by it.
C3_BadProteinFails ==
  \A r \in Reqs :
    (GotJson(r) /\ (NotNumeric(RawOf(r).protein_grams) \/ OutOfRange(RawOf(r).protein_grams)))
    => /\ ~loc[r].analysis.ok
       /\ Failed(r)
       /\ ~\E a \in meal_analysis : a.meal_id = loc[r].meal_id
       /\ CallsOf(r) \cap ({"meal_analysis.insert"} \cup DailyCalls) = {}

\* the three coaching texts of the raw reply after String(v ?? "") and clampText
ClampedModelCoaching(r) ==
  Triple(clampText(StringOr(RawOf(r).five_min_fix, ""), CoachingMax),
         clampText(StringOr(RawOf(r).next_time_tweak, ""), CoachingMax),
         clampText(StringOr(RawOf(r).reason, ""), CoachingMax))
ReturnedCoaching(r) ==
  Triple(resp[r].body.coaching.five_min_fix, resp[r].body.coaching.next_time_tweak,
         resp[r].body.coaching.reason)
FallbackFor(r) ==
  fallbackCoaching(resp[r].body.coaching.scenario_id,
                   Fin(resp[r].body.estimate.protein_grams, 0))
AllNonEmpty(t) == t.five_min_fix # "" /\ t.next_time_tweak # "" /\ t.reason # ""

\* C4 as stated: the model's coaching is returned when the validated
\* confidence is not low, the three clamped texts are non-empty and
\* next_time_tweak starts with "Next time,"; otherwise the returned triple is
\* the fallback of the classified scenario.
C4_GateCaseSensitive ==
  \A r \in Reqs :
    Succeeded(r) =>
      LET m == ClampedModelCoaching(r)
          gate == /\ resp[r].body.estimate.confidence # "low"
                  /\ AllNonEmpty(m)
                  /\ StartsWith(m.next_time_tweak, "Next time,")
      IN  ReturnedCoaching(r) = IF gate THEN m ELSE FallbackFor(r)

\* C4 (amended): as C4, the lead-in "next time," being compared without regard
\* to letter case.
C4_GateCaseInsensitive ==
  \A r \in Reqs :
    Succeeded(r) =>
      LET m == ClampedModelCoaching(r)
          gate == /\ resp[r].body.estimate.confidence # "low"
                  /\ AllNonEmpty(m)
                  /\ StartsWith(ToLowerCase(m.next_time_tweak), "next time,")
      IN  ReturnedCoaching(r) = IF gate THEN m ELSE FallbackFor(r)

\* a success response with confidence low and well-formed model coaching that
\* carries the fallback coaching instead
C4_Witness ==
  \E r \in Reqs :
    /\ Succeeded(r)
    /\ resp[r].body.estimate.confidence = "low"
    /\ AllNonEmpty(ClampedModelCoaching(r))
    /\ StartsWith(ClampedModelCoaching(r).next_time_tweak, "Next time,")
    /\ ReturnedCoaching(r) = FallbackFor(r)
    /\ ReturnedCoaching(r) # ClampedModelCoaching(r)

\* v is missing, empty or made of whitespace only
Blank(v) ==
  \/ v.t \in {"undef", "null"}
  \/ v.t = "str" /\ \A j \in 1..Len(v.s) : SubSeq(v.s, j, j) \in {" ", "\t", "\n", "\r"}
\* every field of the body is absent or a string, as RequestBody declares
WellTyped(b) ==
  /\ b.parses
  /\ \A v \in {b.session_id, b.date, b.meal_text, b.photo_path} :
       v.t \in {"undef", "null", "str"}

C6_Accumulation ==
  [][/\ \A r \in Reqs :
          (resp[r].kind = "none" /\ resp'[r].kind = "json" /\ resp'[r].status = 200)
          => LET k == <<loc[r].session_id, loc[r].date>>
                 t == StoredIn(daily_totals, k) + Grams[r]
             IN  /\ resp'[r].body.daily.protein_total = t
                 /\ resp'[r].body.daily.protein_goal = 120
                 /\ resp'[r].body.daily.remaining = 120 - t
                 /\ Cardinality(RowsOf(daily_totals', k)) = 1
                 /\ StoredIn(daily_totals', k) = t
                 /\ \A d \in RowsOf(daily_totals', k) : d.protein_goal = 120
                 /\ \A d \in daily_totals :
                      (d.session_id # k[1] \/ d.date # k[2]) => d \in daily_totals'
     /\ (\A r \in Reqs : ~(resp[r].kind = "none" /\ resp'[r].kind = "json"
                            /\ resp'[r].status = 200))
        => daily_totals' = daily_totals]_vars

\* the example of the specification: 25 g then 30 g for one (s, d) answered
\* 25/95 and 55/65
C6_Witness ==
  \E r1, r2 \in Reqs :
    /\ r1 # r2 /\ Succeeded(r1) /\ Succeeded(r2) /\ SameKey(r1, r2)
    /\ resp[r1].body.daily.protein_total = 25 /\ resp[r1].body.daily.remaining = 95
    /\ resp[r2].body.daily.protein_total = 55 /\ resp[r2].body.daily.remaining = 65
    /\ StoredIn(daily_totals, <<loc[r1].session_id, loc[r1].date>>) = 55

\* C7: two submissions of the same meal (identical body) handled in sequence
\* and both successful leave two distinct meals rows and two meal_analysis
\* rows, and the stored daily total holds both estimates.
C7_NoDeduplication ==
  \A r1, r2 \in Reqs :
    (r1 # r2 /\ Succeeded(r1) /\ Succeeded(r2) /\ req[r1] = req[r2])
    => LET k == <<loc[r1].session_id, loc[r1].date>>
           ids == {resp[r1].body.meal_id, resp[r2].body.meal_id}
       IN  /\ Cardinality(ids) = 2
           /\ Cardinality({m \in meals : m.id \in ids /\ <<m.session_id, m.date>> = k}) = 2
           /\ Cardinality({a \in meal_analysis : a.meal_id \in ids}) = 2
           /\ StoredIn(daily_totals, k) >= Grams[r1] + Grams[r2]
           /\ StoredIn(daily_totals, k) = SumOver(SucceededFor(k), Grams)

\* the same meal submitted twice, with the same estimate, counted twice
C7_Witness ==
  \E r1, r2 \in Reqs :
    /\ r1 # r2 /\ Succeeded(r1) /\ Succeeded(r2) /\ req[r1] = req[r2]
    /\ Grams[r1] = 25 /\ Grams[r2] = 25
    /\ StoredIn(daily_totals, <<loc[r1].session_id, loc[r1].date>>) = 50
    /\ Cardinality(meals) = 2 /\ Cardinality(meal_analysis) = 2

\* the decision table of the classifier, in priority order
ExpectedScenario(p, c, mt) ==
  CASE c = "low" \/ p.nan \/ p.inf -> <<"UNKNOWN_MEAL", "protein">>
    [] ~(c = "low" \/ p.nan \/ p.inf) /\ 100 * p.i + p.f >= 3500 -> <<"HIGH_PROTEIN", "protein">>
    [] ~(c = "low" \/ p.nan \/ p.inf) /\ 100 * p.i + p.f >= 2000 /\ 100 * p.i + p.f < 3500 ->
         <<"MEDIUM_PROTEIN", "protein">>
    [] OTHER ->
         CASE mt = JsStr("breakfast") -> <<"LOW_PROTEIN_BREAKFAST", "protein">>
           [] mt = JsStr("lunch") -> <<"LOW_PROTEIN_LUNCH", "protein">>
           [] mt = JsStr("dinner") -> <<"LOW_PROTEIN_DINNER", "protein">>
           [] mt = JsStr("snack") -> <<"LOW_PROTEIN_SNACK", "snack">>
           [] OTHER -> <<"UNKNOWN_MEAL", "protein">>

\* C8: deriveCoachingScenario is total and follows the decision table: low
\* confidence or non-finite protein gives UNKNOWN_MEAL/protein, else protein
\* >= 35 HIGH_PROTEIN, else >= 20 MEDIUM_PROTEIN, else by meal type, snack
\* alone having focus snack and an absent or unrecognised type UNKNOWN_MEAL.
C8_DecisionTable ==
  (fnRet # NoFn /\ fnRet.fn = "deriveCoachingScenario") =>
    /\ fnRet.out.scenario_id \in CoachingScenario
    /\ fnRet.out.focus \in CoachingFocus
    /\ <<fnRet.out.scenario_id, fnRet.out.focus>>
         = ExpectedScenario(fnArg.proteinGrams, fnArg.confidence, fnArg.mealType)

\* the classifier applied to exactly 35 g, medium confidence, at lunch
C8_Witness ==
  /\ fnRet # NoFn /\ fnRet.fn = "deriveCoachingScenario"
  /\ fnArg.proteinGrams = Fin(35, 0) /\ fnArg.confidence = "medium"
  /\ fnArg.mealType = JsStr("lunch")
  /\ fnRet.out.scenario_id = "HIGH_PROTEIN"

\* C9: a protein_grams that is a number in [0, 500] passes validation, and
\* the grams persisted in meal_analysis, returned to the client and added to
\* the daily total are that number rounded to the nearest integer.
C9_RoundedProtein ==
  \A r \in Reqs :
    (GotJson(r) /\ IsNumberInRange(RawOf(r).protein_grams))
    => LET x == 100 * RawOf(r).protein_grams.i + RawOf(r).protein_grams.f
           g == Grams[r]
           k == <<loc[r].session_id, loc[r].date>>
       IN  /\ loc[r].analysis.ok
           /\ 100 * g - x <= 50 /\ x - 100 * g <= 50
           /\ \A a \in meal_analysis : a.meal_id = loc[r].meal_id => a.protein_grams = g
           /\ Succeeded(r) =>
                /\ resp[r].body.estimate.protein_grams = g
                /\ resp[r].body.daily.protein_total = currentTotal(loc[r]) + g
                /\ StoredIn(daily_totals, k) = currentTotal(loc[r]) + g
           /\ Failed(r) => resp[r].body.error # "Bad protein_grams from model"

\* 24.75 g estimated, 25 g persisted, returned and stored as the day's total
C9_Witness ==
  \E r \in Reqs :
    /\ GotJson(r) /\ RawOf(r).protein_grams = JsNum(24, 75)
    /\ Succeeded(r)
    /\ resp[r].body.estimate.protein_grams = 25
    /\ \E a \in meal_analysis : a.meal_id = loc[r].meal_id /\ a.protein_grams = 25
    /\ StoredIn(daily_totals, <<loc[r].session_id, loc[r].date>>) = 25

\* the four enumerated fields of the validated output of r
EnumsOf(r) ==
  <<loc[r].analysis.confidence, loc[r].analysis.fat_risk,
    loc[r].analysis.fibre_risk, loc[r].analysis.carb_type>>

\* C10 as stated: with a valid protein_grams validation succeeds, a value that
\* is one of the recognised words passes through unchanged and every other
\* value, a missing one included, is replaced by medium (carb_type: mixed).
PassOrDefault(v, allowed, d) == IF v.t = "str" /\ v.s \in allowed THEN v.s ELSE d
C10_UnrecognisedReplaced ==
  \A r \in Reqs :
    (GotJson(r) /\ IsNumberInRange(RawOf(r).protein_grams))
    => /\ loc[r].analysis.ok
       /\ EnumsOf(r) = <<PassOrDefault(RawOf(r).confidence, Confidence, "medium"),
                         PassOrDefault(RawOf(r).fat_risk, MacroRisk, "medium"),
                         PassOrDefault(RawOf(r).fibre_risk, MacroRisk, "medium"),
                         PassOrDefault(RawOf(r).carb_type, CarbType, "mixed")>>

\* C10 (amended): a value counts as recognised when its string conversion is
\* one of the words, which holds for the word itself and for a one-element
\* array holding it; it comes out as that word, every other value as the
\* default, and validation succeeds.
ConvertedOrDefault(v, allowed, d) ==
  IF v.t \in {"str", "arr"} /\ v.s \in allowed THEN v.s ELSE d
C10_CoercedOrDefault ==
  \A r \in Reqs :
    (GotJson(r) /\ IsNumberInRange(RawOf(r).protein_grams))
    => /\ loc[r].analysis.ok
       /\ EnumsOf(r) = <<ConvertedOrDefault(RawOf(r).confidence, Confidence, "medium"),
                         ConvertedOrDefault(RawOf(r).fat_risk, MacroRisk, "medium"),
                         ConvertedOrDefault(RawOf(r).fibre_risk, MacroRisk, "medium"),
                         ConvertedOrDefault(RawOf(r).carb_type, CarbType, "mixed")>>

\* four unrecognised values replaced by the defaults in a request that went on
\* to succeed
C10_Witness ==
  \E r \in Reqs :
    /\ GotJson(r) /\ Succeeded(r)
    /\ RawOf(r).confidence = JsStr("unsure") /\ RawOf(r).fat_risk = JsStr("HIGH")
    /\ RawOf(r).fibre_risk = JsStr("none") /\ RawOf(r).carb_type = JsStr("refined")
    /\ EnumsOf(r) = <<"medium", "medium", "medium", "mixed">>

\* C11: the notes of the validated output are the model's notes clamped like
\* every other free-text field: whitespace runs collapsed to single spaces,
\* trimmed, and a text longer than 300 characters cut to 299 characters plus
\* the ellipsis; a 400-character notes string comes out with 300 characters
\* ending in the ellipsis and a whitespace-only one comes out empty.
C11_NotesClamped ==
  \A r \in Reqs :
    (GotJson(r) /\ loc[r].analysis.ok)
    => LET raw == StringOr(RawOf(r).notes, "")
           out == loc[r].analysis.notes
       IN  /\ out = clampText(raw, NotesMax)
           /\ Len(raw) = 400 => Len(out) = NotesMax /\ LastChar(out) = Ellipsis
           /\ NonWs(raw) = {} => out = ""

\* C12: fallbackCoaching returns, for each of the seven scenario tags and for
\* any other tag, a triple whose five_min_fix, next_time_tweak and reason are
\* all non-empty, without any storage, network or datastore call; the triple
\* is the same for every protein estimate, except that the reason of
\* HIGH_PROTEIN carries the rounded estimate, and every unrecognised tag gets
\* the triple of UNKNOWN_MEAL.
C12_FallbackTotal ==
  (fnRet # NoFn /\ fnRet.fn = "fallbackCoaching") =>
    LET tag == fnArg.scenario_id
        out == fnRet.out
    IN  /\ DOMAIN out = {"five_min_fix", "next_time_tweak", "reason"}
        /\ AllNonEmpty(out)
        /\ \A r \in Reqs : ops[r] = <<>>
        /\ \A p \in ClassifierProteins :
             LET other == fallbackCoaching(tag, p)
             IN  /\ other.five_min_fix = out.five_min_fix
                 /\ other.next_time_tweak = out.next_time_tweak
                 /\ (tag # "HIGH_PROTEIN"
                     \/ RoundToString(p) = RoundToString(fnArg.proteinGrams))
                    => other.reason = out.reason
        /\ tag \notin CoachingScenario
           => out = fallbackCoaching("UNKNOWN_MEAL", fnArg.proteinGrams)

\* the generator applied to a tag that is none of the seven, and to
\* HIGH_PROTEIN
C12_Witness ==
  /\ fnRet # NoFn /\ fnRet.fn = "fallbackCoaching"
  /\ fnArg.scenario_id \in {"LOW_PROTEIN_BRUNCH", "HIGH_PROTEIN"}
  /\ AllNonEmpty(fnRet.out)

\* the three writes of a request
Writes == {"meals.insert", "meal_analysis.insert", "daily_totals.upsert"}
Responded(r) == resp[r] # NoResp
\* the step in which request r is answered with success: true
SendsSuccess(r) == ~Succeeded(r) /\ Succeeded(r)'

\* C13: every request gets exactly one response: a received request is
\* eventually answered, it is answered when and only when its handler has
\* ended, and a response once sent never changes.  A success response is sent
\* only after the meals insert, the meal_analysis insert and the daily_totals
\* upsert of the request succeeded; its daily.protein_total and protein_goal
\* are what the request's upsert wrote and remaining = protein_goal -
\* protein_total.
C13_OneResponse ==
  /\ [](\A r \in Reqs :
          /\ Responded(r) <=> pc[r] = "done"
          /\ Succeeded(r) =>
               /\ Writes \subseteq CallsOf(r)
               /\ resp[r].body.success
               /\ \E m \in meals : m.id = resp[r].body.meal_id
               /\ \E a \in meal_analysis : a.meal_id = resp[r].body.meal_id
               /\ resp[r].body.daily.remaining
                    = resp[r].body.daily.protein_goal - resp[r].body.daily.protein_total)
  /\ [][\A r \in Reqs :
          /\ Responded(r) => resp'[r] = resp[r]
          /\ SendsSuccess(r) =>
               LET k == <<loc[r].session_id, loc[r].date>>
               IN  /\ Cardinality(RowsOf(daily_totals', k)) = 1
                   /\ \A d \in RowsOf(daily_totals', k) :
                        /\ d.protein_total = resp'[r].body.daily.protein_total
                        /\ d.protein_goal = resp'[r].body.daily.protein_goal
                   /\ ops'[r][Len(ops'[r])] = "daily_totals.upsert"]_vars
  /\ \A r \in Reqs : (pc[r] # "idle") ~> Responded(r)

\* one request answered with success after its three writes, another
\* answered with an error
C13_Witness ==
  \E r1, r2 \in Reqs :
    /\ Succeeded(r1) /\ Writes \subseteq CallsOf(r1)
    /\ resp[r1].body.daily.protein_total = Grams[r1]
    /\ resp[r1].body.daily.remaining + resp[r1].body.daily.protein_total = DAILY_GOAL_GRAMS
    /\ Failed(r2) /\ resp[r2].status = 500

\* the messages the call op fails with
ErrorsOf(op) ==
  CASE op = "storage.createSignedUrl" -> {"createSignedUrl failed"}
    [] op = "meals.insert" -> {"meals insert failed"}
    [] op = "fetch.image" -> {"Failed to fetch image for base64"}
    [] op = "openai.responses" ->
         {"OpenAI error", "Model did not return valid JSON", "Bad protein_grams from model"}
    [] op = "meal_analysis.insert" -> {"meal_analysis insert failed"}
    [] op = "daily_totals.select" -> {"daily_totals select failed"}
    [] op = "daily_totals.upsert" -> {"daily_totals upsert failed"}
NoRows == meals = {} /\ meal_analysis = {} /\ daily_totals = {}

\* C14: OPTIONS is answered as a preflight; any other method than POST is
\* answered 405 "Only POST allowed" without any storage, inference or
\* datastore call and without a row written; a POST that passed validation
\* (its handler made at least the signed-URL call) and did not succeed is
\* answered 500 with { error: message }, the message being that of the call
\* it made last, and 405 is given to no POST.
C14_ErrorStatuses ==
  \A r \in Reqs :
    Responded(r) =>
      /\ req[r].method = "OPTIONS" =>
           resp[r] = [kind |-> "ok", status |-> 200] /\ ops[r] = <<>>
      /\ req[r].method \notin {"POST", "OPTIONS"} =>
           /\ resp[r] = json([error |-> "Only POST allowed"], 405)
           /\ ops[r] = <<>> /\ NoRows
      /\ req[r].method = "POST" => resp[r].status # 405
      /\ (req[r].method = "POST" /\ ops[r] # <<>> /\ ~Succeeded(r)) =>
           /\ resp[r].kind = "json" /\ resp[r].status = 500
           /\ DOMAIN resp[r].body = {"error"}
           /\ resp[r].body.error \in ErrorsOf(ops[r][Len(ops[r])])

\* a POST that passed validation and failed at the inference reply
C14_Witness ==
  \E r \in Reqs :
    /\ req[r].method = "POST" /\ Responded(r) /\ ops[r] # <<>>
    /\ ops[r][Len(ops[r])] = "openai.responses"
    /\ resp[r] = json([error |-> "Model did not return valid JSON"], 500)

InFlightSubmit == submit.pc \in {"upload", "invoke"}
\* the submission has finished with an exception caught
SubmitFailed == submit.pc = "done" /\ submit.caught # ""

\* C15: when a meal submission has finished, with success or with any failure
\* (no photo, a failed upload, a failed or unsuccessful function call), the
\* result is not null: loading is on exactly while a submission is in flight,
\* the results screen with loading off always has a result, and after a
\* failure the result has protein 0, confidence low and the explanation
\* "Failed: " followed by the error message.
C15_ResultNeverNull ==
  /\ isLoading <=> InFlightSubmit
  /\ InFlightSubmit => currentScreen = "results"
  /\ (currentScreen = "results" /\ ~isLoading) => mealResult # NoResult
  /\ (SubmitFailed /\ currentScreen = "results") =>
       /\ mealResult.protein = Fin(0, 0)
       /\ mealResult.confidence = JsStr("low")
       /\ mealResult.explanation = "Failed: " \o submit.caught

\* the function call was answered with a non-2xx status and the results
\* screen shows the degraded result
C15_Witness ==
  /\ SubmitFailed /\ currentScreen = "results" /\ ~isLoading
  /\ clientOps[Len(clientOps)] = "functions.invoke"
  /\ mealResult.explanation = "Failed: Edge Function returned a non-2xx status code"

\* C16: getOrCreateSessionId always returns a non-empty string, and any two
\* calls made in a browser return the same identifier.
C16_StableSessionId ==
  /\ \A i \in DOMAIN returned : returned[i] # ""
  /\ storageMode # "nowindow" =>
       \A i, j \in DOMAIN returned : returned[i] = returned[j]

\* the place of the call op among the calls of request r
Pos(r, op) == CHOOSE j \in DOMAIN ops[r] : ops[r][j] = op
Before(r, op1, op2) ==
  /\ op1 \in CallsOf(r)
  /\ op2 \in CallsOf(r) => Pos(r, op1) < Pos(r, op2)
HasMeal(r) == \E m \in meals : m.id = loc[r].meal_id
HasAnalysis(r) == \E a \in meal_analysis : a.meal_id = loc[r].meal_id

\* C17: within one request the meals row exists before the meal_analysis row
\* is inserted, and daily_totals is read and upserted only after the
\* meal_analysis insert succeeded: a request whose analysis insert failed
\* neither reads nor writes daily_totals, and every change of daily_totals is
\* made by a request whose analysis row is already stored.
C17_PersistenceOrder ==
  /\ [](\A r \in Reqs :
          /\ "meal_analysis.insert" \in CallsOf(r) =>
               HasMeal(r) /\ Before(r, "meals.insert", "meal_analysis.insert")
          /\ HasAnalysis(r) => HasMeal(r)
          /\ CallsOf(r) \cap DailyCalls # {} =>
               /\ HasAnalysis(r)
               /\ Before(r, "meal_analysis.insert", "daily_totals.select")
               /\ Before(r, "daily_totals.select", "daily_totals.upsert")
          /\ ("meal_analysis.insert" \in CallsOf(r) /\ pc[r] # "insertAnalysis"
              /\ ~HasAnalysis(r)) =>
               /\ CallsOf(r) \cap DailyCalls = {}
               /\ resp[r] = json([error |-> "meal_analysis insert failed"], 500))
  /\ [][daily_totals' # daily_totals =>
          \E r \in Reqs : pc[r] = "upsertDaily" /\ pc'[r] = "done" /\ HasAnalysis(r)]_vars

\* a request whose meals row is stored and whose analysis insert failed, next
\* to a request that went through to the upsert
C17_Witness ==
  \E r1, r2 \in Reqs :
    /\ HasMeal(r1) /\ ~HasAnalysis(r1)
    /\ resp[r1] = json([error |-> "meal_analysis insert failed"], 500)
    /\ Succeeded(r2) /\ HasAnalysis(r2)

\* the handler of r has gone past the inference call, whose reply was an
\* error status, a text that is not JSON, or a document that fails validation
InferenceFailed(r) ==
  /\ "openai.responses" \in CallsOf(r) /\ pc[r] # "infer"
  /\ \/ loc[r].reply.kind \in {"http_error", "not_json"}
     \/ /\ loc[r].reply.kind = "json"
        /\ ~ProteinOk(Number(loc[r].reply.parsed.protein_grams))
\* the handler of r has ended at the image fetch
FetchFailed(r) ==
  /\ pc[r] = "done" /\ ops[r] # <<>> /\ ops[r][Len(ops[r])] = "fetch.image"

\* C18: when the image fetch, the inference call, the JSON parsing or the
\* validation fails after the meals row was inserted, the request ends with
\* one error response (status 500, never changed afterwards), its meals row
\* stays stored with no meal_analysis row, it makes no further call, so
\* daily_totals is not touched, and no row is ever removed.
C18_OrphanMeal ==
  /\ [](\A r \in Reqs :
          (InferenceFailed(r) \/ FetchFailed(r)) =>
            /\ pc[r] = "done"
            /\ resp[r].kind = "json" /\ resp[r].status = 500
            /\ resp[r].body.error \in
                 ErrorsOf("fetch.image") \cup ErrorsOf("openai.responses")
            /\ MealRow(loc[r].meal_id, loc[r]) \in meals
            /\ ~HasAnalysis(r)
            /\ CallsOf(r) \cap ({"meal_analysis.insert"} \cup DailyCalls) = {}
            /\ RowsOf(daily_totals, <<loc[r].session_id, loc[r].date>>) = {})
  /\ [][/\ \A r \in Reqs : Responded(r) => resp'[r] = resp[r]
        /\ meals \subseteq meals'
        /\ meal_analysis \subseteq meal_analysis']_vars

\* the model replied with text that is not JSON: the meal is stored without
\* an analysis and the request was answered with the error
C18_Witness ==
  \E r \in Reqs :
    /\ InferenceFailed(r) /\ loc[r].reply.kind = "not_json"
    /\ HasMeal(r) /\ ~HasAnalysis(r)
    /\ resp[r] = json([error |-> "Model did not return valid JSON"], 500)

\* C19: the signed URL is obtained before the meals row is inserted (the row
\* carries it), the meals row is inserted before the image is fetched and
\* before the inference service is called, and the image is fetched before
\* the inference call; a request that failed at the signed URL has no meals
\* row, and one that failed at the meals insert or at the image fetch never
\* called the inference service.
C19_StepsBeforeInference ==
  \A r \in Reqs :
    /\ "meals.insert" \in CallsOf(r) =>
         /\ Before(r, "storage.createSignedUrl", "meals.insert")
         /\ loc[r].signedUrl # ""
    /\ \A m \in meals : m.id = loc[r].meal_id => m.photo_url = loc[r].signedUrl
    /\ "fetch.image" \in CallsOf(r) =>
         HasMeal(r) /\ Before(r, "meals.insert", "fetch.image")
    /\ "openai.responses" \in CallsOf(r) =>
         /\ HasMeal(r)
         /\ Before(r, "meals.insert", "openai.responses")
         /\ Before(r, "fetch.image", "openai.responses")
    /\ (Failed(r) /\ resp[r].body.error = "createSignedUrl failed") =>
         /\ CallsOf(r) = {"storage.createSignedUrl"}
         /\ \A m \in meals : m.id # NewId(r)
    /\ (Failed(r) /\ resp[r].body.error
          \in {"meals insert failed", "Failed to fetch image for base64"}) =>
         "openai.responses" \notin CallsOf(r)

\* one request failed at the signed URL and left no meals row, another went
\* through signing, insert, fetch and inference in that order
C19_Witness ==
  \E r1, r2 \in Reqs :
    /\ Failed(r1) /\ resp[r1].body.error = "createSignedUrl failed"
    /\ \A m \in meals : m.id # NewId(r1)
    /\ SubSeq(ops[r2], 1, Min(4, Len(ops[r2])))
         = <<"storage.createSignedUrl", "meals.insert", "fetch.image", "openai.responses">>

\* the request r sends its upsert and the upsert succeeds
Upserts(r) == pc[r] = "upsertDaily" /\ Succeeded(r)'

\* C20: under every interleaving of concurrent submissions there is at most
\* one daily_totals row for a (session_id, date), and no two rows share an id:
\* a successful upsert adds exactly one row when the key has none and
\* otherwise keeps the existing row, with its id, and changes no other key.
C20_OneRowPerKey ==
  /\ [](\A d1, d2 \in daily_totals :
          (d1.id = d2.id \/ (d1.session_id = d2.session_id /\ d1.date = d2.date))
          => d1 = d2)
  /\ [][\A r \in Reqs :
          Upserts(r) =>
            LET k == <<loc[r].session_id, loc[r].date>>
                old == RowsOf(daily_totals, k)
                new == RowsOf(daily_totals', k)
            IN  /\ Cardinality(new) = 1
                /\ \A d \in old : \E e \in new : e.id = d.id
                /\ daily_totals' \ new = daily_totals \ old]_vars

\* two concurrent first meals of a day: both found no row, both upserts
\* succeeded, and the key has one row
C20_Witness ==
  \E r1, r2 \in Reqs :
    /\ r1 # r2 /\ SameKey(r1, r2)
    /\ Succeeded(r1) /\ Succeeded(r2)
    /\ loc[r1].dailyExisting = NoRow /\ loc[r2].dailyExisting = NoRow
    /\ Cardinality(RowsOf(daily_totals, <<loc[r1].session_id, loc[r1].date>>)) = 1

(***************************************************************************)
(* The goal of a day                                                       *)
(***************************************************************************)
\* the rows of table with the key of row d
KeyRows(table, d) == RowsOf(table, <<d.session_id, d.date>>)

\* C21: the daily-total update never changes the protein_goal of an existing
\* row: every row keeps its goal at every step (a goal overridden to 150
\* included), a row that appears for a key without one has the default goal
\* of 120, and the protein_goal of a success response is the goal of the
\* stored row of the request's key.
C21_GoalKept ==
  [][/\ \A d \in daily_totals :
          /\ KeyRows(daily_totals', d) # {}
          /\ \A e \in KeyRows(daily_totals', d) : e.protein_goal = d.protein_goal
     /\ \A e \in daily_totals' :
          KeyRows(daily_totals, e) = {} => e.protein_goal = DAILY_GOAL_GRAMS
     /\ \A r \in Reqs :
          SendsSuccess(r) =>
            \E e \in RowsOf(daily_totals', <<loc[r].session_id, loc[r].date>>) :
              resp'[r].body.daily.protein_goal = e.protein_goal]_vars

\* a meal was added to the stored day whose goal is overridden: the total
\* grew, the goal is still 150 and the response reports 150
C21_Witness ==
  \E r \in Reqs :
    /\ Succeeded(r)
    /\ loc[r].dailyExisting = StoredRow
    /\ StoredRow.protein_goal # DAILY_GOAL_GRAMS
    /\ resp[r].body.daily.protein_goal = StoredRow.protein_goal
    /\ \E d \in daily_totals :
         /\ d.id = StoredRow.id
         /\ d.protein_goal = StoredRow.protein_goal
         /\ d.protein_total > StoredRow.protein_total

(***************************************************************************)
(* The running total under overlapping submissions                         *)
(***************************************************************************)
\* C22 as stated: for a fixed (session_id, date) the stored protein_total is
\* non-negative and never decreases from one state to the next, whatever the
\* submissions.
C22_TotalNeverDecreases ==
  /\ [](\A d \in daily_totals : d.protein_total >= 0)
  /\ [][\A d \in daily_totals :
          StoredIn(daily_totals', <<d.session_id, d.date>>) >= d.protein_total]_vars

\* the request r upserts a total computed from a read that another write has
\* overtaken: the total it read is no longer the stored one
StaleUpsert(r) ==
  /\ Upserts(r)
  /\ currentTotal(loc[r]) # StoredIn(daily_totals, <<loc[r].session_id, loc[r].date>>)

\* C22: the stored protein_total of a (session_id, date) is non-negative; an
\* upsert never writes less than the total its request read, so the stored
\* total decreases at no step except the upsert of a request whose read was
\* overtaken by another write to the same key, and never while the
\* submissions of a key are handled one at a time.
C22_DecreasesOnlyByStaleWrite ==
  /\ [](\A d \in daily_totals : d.protein_total >= 0)
  /\ [][\A r \in Reqs : Upserts(r) => newTotal(loc[r]) >= currentTotal(loc[r])]_vars
  /\ [][\A d \in daily_totals :
          StoredIn(daily_totals', <<d.session_id, d.date>>) < d.protein_total
          => \E r \in Reqs :
               /\ StaleUpsert(r)
               /\ loc[r].session_id = d.session_id /\ loc[r].date = d.date]_vars

\* two meals of one day, one after the other: the second request read the
\* total the first had stored and the stored total is now higher
C22_Witness ==
  \E r1, r2 \in Reqs :
    /\ r1 # r2 /\ SameKey(r1, r2)
    /\ Succeeded(r1) /\ Succeeded(r2)
    /\ loc[r2].dailyExisting # NoRow
    /\ currentTotal(loc[r2]) = newTotal(loc[r1])
    /\ StoredIn(daily_totals, <<loc[r2].session_id, loc[r2].date>>)
         = newTotal(loc[r1]) + Grams[r2]
    /\ Grams[r2] > 0

(***************************************************************************)
(* The rows of meal_analysis                                               *)
(***************************************************************************)
\* the values the columns of a meal_analysis row may hold
RowInRange(row) ==
  /\ row.protein_grams \in 0..MaxProtein
  /\ row.confidence \in Confidence
  /\ row.fat_risk \in MacroRisk
  /\ row.fibre_risk \in MacroRisk
  /\ row.carb_type \in CarbType

\* C23: every meal_analysis row the pipeline inserts, and every row it is
\* about to insert, has protein_grams an integer in [0, 500], confidence,
\* fat_risk and fibre_risk in {low, medium, high} and carb_type in {low,
\* mixed, refined_heavy}; so the CHECK constraints of the table reject no
\* insert.
C23_RowsInRange ==
  /\ \A a \in meal_analysis : RowInRange(a)
  /\ \A r \in Reqs :
       pc[r] = "insertAnalysis" =>
         /\ RowInRange(AnalysisRow(NewId(r), loc[r]))
         /\ AnalysisRowAccepted(AnalysisRow(NewId(r), loc[r]))

\* a row was inserted for a model output whose protein_grams rounds up to the
\* cap and whose confidence is none of the allowed words
C23_Witness ==
  \E r \in Reqs : \E a \in meal_analysis :
    /\ a.meal_id = loc[r].meal_id
    /\ GotJson(r)
    /\ RawOf(r).protein_grams = JsNum(499, 50)
    /\ RawOf(r).confidence = JsUndef
    /\ a.protein_grams = MaxProtein
    /\ a.confidence = "medium"

\* the number of calls of op the request r has made
CountOf(r, op) == Cardinality({j \in DOMAIN ops[r] : ops[r][j] = op})

\* C24: meals and meal_analysis are append-only: no step removes or changes a
\* row of either table and a step adds at most one row; a request makes at
\* most one meals insert and at most one meal_analysis insert, so the tables
\* hold no more rows than inserts were made; every meal_analysis row
\* references a meals row that exists, and no meals row has two meal_analysis
\* rows.
C24_AppendOnly ==
  /\ [][/\ meals \subseteq meals'
        /\ meal_analysis \subseteq meal_analysis'
        /\ Cardinality(meals' \ meals) + Cardinality(meal_analysis' \ meal_analysis) <= 1
        /\ \A a \in meal_analysis' \ meal_analysis : \E m \in meals : m.id = a.meal_id]_vars
  /\ [](\A r \in Reqs :
          /\ CountOf(r, "meals.insert") <= 1
          /\ CountOf(r, "meal_analysis.insert") <= 1
          /\ Cardinality({m \in meals : m.id = NewId(r)}) <= CountOf(r, "meals.insert")
          /\ Cardinality({a \in meal_analysis : a.id = NewId(r)})
               <= CountOf(r, "meal_analysis.insert"))
  /\ [](/\ \A m \in meals : \E r \in Reqs : m.id = NewId(r)
        /\ \A a \in meal_analysis : \E r \in Reqs : a.id = NewId(r)
        /\ \A a \in meal_analysis : \E m \in meals : m.id = a.meal_id
        /\ \A a1, a2 \in meal_analysis : a1.meal_id = a2.meal_id => a1 = a2)

\* two requests of one session have each stored their meal and its analysis
C24_Witness ==
  \E r1, r2 \in Reqs :
    /\ r1 # r2
    /\ loc[r1].session_id = loc[r2].session_id
    /\ HasMeal(r1) /\ HasAnalysis(r1) /\ HasMeal(r2) /\ HasAnalysis(r2)
    /\ Cardinality(meals) = 2 /\ Cardinality(meal_analysis) = 2

\* C25: under every interleaving of concurrent submissions the stored
\* protein_total of a (session_id, date) is at most the sum of the
\* protein_grams of the requests for that key whose upsert has completed: a
\* lost update under-counts, and nothing over-counts.
C25_NeverOverCounts ==
  \A k \in Keys : StoredIn(daily_totals, k) <= SumOver(SucceededFor(k), Grams)

\* two overlapping meals of one day: both upserts completed and the stored
\* total is that of one meal only, less than the sum
C25_Witness ==
  \E r1, r2 \in Reqs :
    /\ r1 # r2 /\ SameKey(r1, r2)
    /\ Succeeded(r1) /\ Succeeded(r2)
    /\ Grams[r1] > 0
    /\ StoredIn(daily_totals, <<loc[r2].session_id, loc[r2].date>>) = Grams[r2]
    /\ Grams[r2] < SumOver({r1, r2}, Grams)

(***************************************************************************)
(* The coaching of a success response                                      *)
(***************************************************************************)
\* the three texts are non-empty and of at most 220 characters
TextsBounded(t) ==
  /\ AllNonEmpty(t)
  /\ Len(t.five_min_fix) <= CoachingMax
  /\ Len(t.next_time_tweak) <= CoachingMax
  /\ Len(t.reason) <= CoachingMax

\* the meal_analysis row of the request r holds the texts t
PersistedAs(r, t) ==
  \E a \in meal_analysis :
    /\ a.meal_id = resp[r].body.meal_id
    /\ Triple(a.five_min_fix, a.next_time_tweak, a.coaching_reason) = t

\* C26 as stated: in every success response the three coaching texts are
\* non-empty and of at most 220 characters, next_time_tweak begins with
\* "Next time,", and the texts persisted in meal_analysis are the texts
\* returned.
C26_BeginsNextTime ==
  \A r \in Reqs :
    Succeeded(r) =>
      /\ TextsBounded(ReturnedCoaching(r))
      /\ StartsWith(ReturnedCoaching(r).next_time_tweak, "Next time,")
      /\ PersistedAs(r, ReturnedCoaching(r))

\* C26: in every success response the three coaching texts are non-empty and
\* of at most 220 characters, next_time_tweak begins with "next time,"
\* compared without regard to letter case (exactly "Next time," when the
\* texts are the fallback), and the texts persisted in meal_analysis are the
\* texts returned.
C26_BeginsNextTimeAnyCase ==
  \A r \in Reqs :
    Succeeded(r) =>
      /\ TextsBounded(ReturnedCoaching(r))
      /\ StartsWith(ToLowerCase(ReturnedCoaching(r).next_time_tweak), "next time,")
      /\ ReturnedCoaching(r) = FallbackFor(r)
           => StartsWith(ReturnedCoaching(r).next_time_tweak, "Next time,")
      /\ PersistedAs(r, ReturnedCoaching(r))

\* the model's coaching was returned and persisted with a next_time_tweak
\* that begins with a lower-case "next time,"
C26_Witness ==
  \E r \in Reqs :
    /\ Succeeded(r)
    /\ ReturnedCoaching(r) = ClampedModelCoaching(r)
    /\ StartsWith(ReturnedCoaching(r).next_time_tweak, "next time,")
    /\ PersistedAs(r, ReturnedCoaching(r))

(***************************************************************************)
(* The displayed total of the day                                          *)
(***************************************************************************)
\* the last handleLogMeal call has completed with a success response that
\* carries daily.protein_total
CompletedWithTotal ==
  submit # NoSubmit /\ submit.pc = "done" /\ submit.caught = "" /\ ~IsNullish(submit.daily)

\* C27: once a successful submission has completed, the displayed dailyProtein
\* is the daily.protein_total of its response for as long as no other
\* submission is started, whenever the load of today's total started on mount
\* settles; and a submission that fails leaves dailyProtein as it was.
C27_DisplayedIsLastTotal ==
  /\ [](CompletedWithTotal => dailyProtein = Number(submit.daily))
  /\ [][(InFlightSubmit /\ submit'.pc = "done" /\ submit'.caught # "")
          => dailyProtein' = dailyProtein]_vars

(***************************************************************************)
(* The function call of the client                                         *)
(***************************************************************************)
\* the step appends a call of the analysis function to the client's calls
InvokesFunction ==
  /\ Len(clientOps') = Len(clientOps) + 1
  /\ clientOps'[Len(clientOps')] = "functions.invoke"

\* the handleLogMeal call ends in this step by catching the message
EndsCatching(messages) ==
  /\ submit # submit'
  /\ submit'.pc = "done"
  /\ submit'.caught \in messages

\* C28: the client calls the analysis function only after the photo of the
\* same submission was uploaded: every function call follows directly on the
\* upload of its handleLogMeal call, which threw nothing.  A submission without
\* a photo (a description only) and a submission whose upload failed make no
\* function call and end on the results screen, not loading, with the
\* degraded result built from the caught message.
C28_InvokeOnlyAfterUpload ==
  /\ [](\A j \in DOMAIN clientOps :
          clientOps[j] = "functions.invoke" => j > 1 /\ clientOps[j - 1] = "storage.upload")
  /\ [][InvokesFunction =>
          /\ submit.pc = "upload" /\ submit'.pc = "invoke"
          /\ submit'.caught = "" /\ submit'.path # ""]_vars
  /\ [][EndsCatching({NoPhotoMessage, "upload failed"}) =>
          /\ clientOps' = clientOps
          /\ currentScreen' = "results"
          /\ ~isLoading'
          /\ mealResult' = Catch(submit'.caught, submit'.mealText, submit'.mealType)
          /\ dailyProtein' = dailyProtein]_vars

\* a description-only submission has ended: the results screen shows the
\* degraded result and the function was never called
C28_Witness ==
  /\ submit.pc = "done"
  /\ submit.caught = NoPhotoMessage
  /\ submit.mealText = "2 eggs on toast"
  /\ ResultsShown
  /\ mealResult = Catch(NoPhotoMessage, submit.mealText, submit.mealType)
  /\ "functions.invoke" \notin {clientOps[j] : j \in DOMAIN clientOps}

(***************************************************************************)
(* Scenario and focus of a response                                        *)
(***************************************************************************)
\* C29: in the coaching of every success response the scenario is one of the
\* seven, the focus is snack exactly when the scenario is LOW_PROTEIN_SNACK
\* and protein for every other scenario, so balance and portion never occur;
\* and a response whose confidence is low carries the scenario UNKNOWN_MEAL.
C29_FocusFollowsScenario ==
  \A r \in Reqs :
    Succeeded(r) =>
      LET c == resp[r].body.coaching
      IN  /\ c.scenario_id \in CoachingScenario
          /\ c.focus = (IF c.scenario_id = "LOW_PROTEIN_SNACK" THEN "snack" ELSE "protein")
          /\ c.focus \notin {"balance", "portion"}
          /\ resp[r].body.estimate.confidence = "low" => c.scenario_id = "UNKNOWN_MEAL"

\* a snack of under 20 g with a confidence that is not low was answered with
\* the scenario LOW_PROTEIN_SNACK and the focus snack
C29_Witness ==
  \E r \in Reqs :
    /\ Succeeded(r)
    /\ loc[r].meal_type = JsStr("snack")
    /\ resp[r].body.estimate.confidence # "low"
    /\ resp[r].body.estimate.protein_grams < LOW
    /\ resp[r].body.coaching.scenario_id = "LOW_PROTEIN_SNACK"
    /\ resp[r].body.coaching.focus = "snack"

(***************************************************************************)
(* clampText                                                               *)
(***************************************************************************)
\* s has no whitespace at either end and no two whitespace characters in a row
Tidy(s) ==
  /\ s # "" => ~IsWs(SubSeq(s, 1, 1)) /\ ~IsWs(LastChar(s))
  /\ \A k \in 1..(Len(s) - 1) : ~(IsWs(SubSeq(s, k, k)) /\ IsWs(SubSeq(s, k + 1, k + 1)))

\* C30: clampText(text, max) returns a string of at most max characters with
\* no leading or trailing whitespace and no run of two or more whitespace
\* characters, and clampText applied to its result with the same max returns
\* the result unchanged.
C30_ClampText ==
  (fnRet # NoFn /\ fnRet.fn = "clampText") =>
    /\ Len(fnRet.out) <= fnArg.max
    /\ Tidy(fnRet.out)
    /\ clampText(fnRet.out, fnArg.max) = fnRet.out

\* a text that is longer than 220 characters once collapsed and whose cut
\* falls on a space: the result ends with the ellipsis, right after a word
C30_Witness ==
  /\ fnRet # NoFn /\ fnRet.fn = "clampText"
  /\ fnArg.max = CoachingMax
  /\ fnArg.text = Repeat("ab ", 73) \o "cd ef"
  /\ Len(fnRet.out) = CoachingMax - 1
  /\ LastChar(fnRet.out) = Ellipsis
  /\ fnRet.out # fnArg.text

====
